---- MODULE Spec2Model ----
(***************************************************************************)
(* A model of Pharap/ArduinoUtilities: the fixed-capacity deques and their *)
(* adapters (utils/containers), and the typed access to program memory and *)
(* EEPROM (utils/progmem, utils/eeprom).                                   *)
(*                                                                         *)
(* Containers are records holding the member variables of the C++ class.   *)
(* A member function is an operator from the object (and its arguments) to *)
(* the object after the call; an action applies it to a variable.          *)
(***************************************************************************)
EXTENDS Integers, Naturals, Sequences, FiniteSets, TLC

(***************************************************************************)
(* Bounds of the model.                                                    *)
(***************************************************************************)

\* the template argument `capacity` of the deques under test
Capacity == 3

\* the element values pushed into the containers are 1..NumValues
NumValues == 2

\* an adapter under test receives at most MaxPushes calls of push
MaxPushes == 5

\* the EEPROM cells modelled are those at addresses 0 .. EepromSize - 1
EepromSize == 2

\* the program memory cells modelled are those at addresses 0 .. ProgmemSize - 1
ProgmemSize == 2

\* the bytes stored in the two memories are 0 .. NumByteValues - 1
NumByteValues == 2

\* sizeof the class type (a struct of chars) read and written as a block
StructSize == 2

\* the pushes and pops on two objects that are swapped
MaxPairCalls == 3

\* the longest string literal placed in program memory, its NUL included
MaxLiteral == 2

\* writes to the EEPROM are called while its cells were written fewer than
\* MaxWear times in all
MaxWear == 2

(***************************************************************************)
(* Constants of the program.                                               *)
(***************************************************************************)

\* size_type = size_t is 16 bits wide on AVR: arithmetic is modulo 2^16
SizeModulus == 65536

Values == 1 .. NumValues

Slots == 0 .. (Capacity - 1)

\* unsigned arithmetic on size_type
Wrap(x) == x % SizeModulus

VARIABLES
    deque,          \* a containers::Deque<Type, Capacity>
    circular,       \* a containers::CircularDeque<Type, Capacity>
    op,             \* the name of the last member function called
    pushed_front,   \* the values given to push_front since the deques were last empty
    pushed_back,    \* the values given to push_back since the deques were last empty
    only_pushed,    \* TRUE while nothing but pushes happened since the deques were last empty
    adapter,        \* the adapter template instantiated: "Stack" or "Queue"
    container_type, \* its Container argument: "Deque" or "CircularDeque"
    container,      \* the adapter's member `container`
    calls,          \* the last calls on the adapter: "push", "push_pop" or "other"
    before,         \* the elements of the container before the last push
    pushed,         \* every value pushed into the adapter, in order
    popped,         \* the number of calls of pop
    eeprom,         \* the EEPROM: the byte and the number of writes of every cell
    progmem,        \* the program memory: the byte of every cell
    placed,         \* the object the build placed in program memory
    eeprom_type,    \* the type of the objects the program keeps in EEPROM
    call,           \* the last call into utils/eeprom or utils/progmem
    result,         \* <<the value that call returned>>, <<>> if it returned none
    tracked,        \* <<the last write to EEPROM that no later write overlapped>>
    pointer_object, \* a ProgmemPointer<char> or EepromPointer<const char>: its class and its member `pointer`
    pointer_calls,  \* the last two calls on it, each with the pointer before the call and what it returned
    container_safety, \* TRUE when the build defines CONTAINER_SAFETY
    callee_type,    \* the class of the deque under calls: "Deque" or "CircularDeque"
    callee,         \* that deque
    member,         \* the name of the last member function called on it
    precondition,   \* TRUE when that call met its documented precondition
    argument,       \* <<the position of the iterator given to that call>>, <<>> if it took none
    return_value,   \* <<what that call returned>>, <<>> if it returned nothing
    pair_adapter,   \* the class of two objects of one type: "Stack", "Queue", or "none" for bare deques
    pair_type,      \* the class of their deques: "Deque" or "CircularDeque"
    pair,           \* <<the deque of the first object, the deque of the second>>
    pair_calls,     \* the number of pushes and pops on the two objects
    pair_op,        \* the name of the last call on them
    array_class,    \* the class of an array object: "Array", "EepromArray" or "ProgmemArray"
    array_capacity, \* its template argument `capacity`
    array_elements, \* the member `elements` of an Array; <<>> when the elements are
                    \* in EEPROM or in program memory
    array_call,     \* the last call on the array: its name, its argument, the elements
                    \* before it and what it returned
    owner_type,     \* the class of the deque that owns its elements: "Deque" or "CircularDeque"
    owner,          \* that deque
    trace,          \* the last call on it: its name, the slots whose destructor it ran, in
                    \* order, whether its loop ended, and the indices of `elements` it
                    \* read and assigned
    unreleased,     \* the slots an element was removed from with no destructor run since
    reverse_iterator, \* a utils::ReverseIterator over the iterators of an array
    iterator_call   \* the last call on iterators: its name, its arguments and what it returned

dequeVars == <<deque, circular, op, pushed_front, pushed_back, only_pushed>>

adapterVars == <<adapter, container_type, container, calls, before, pushed, popped>>

memoryVars == <<eeprom, progmem, placed, eeprom_type, call, result, tracked>>

pointerVars == <<pointer_object, pointer_calls>>

callVars == <<container_safety, callee_type, callee, member, precondition, argument,
              return_value>>

arrayVars == <<array_class, array_capacity, array_elements, array_call>>

pairVars == <<pair_adapter, pair_type, pair, pair_calls, pair_op>>

lifetimeVars == <<owner_type, owner, trace, unreleased>>

iteratorVars == <<reverse_iterator, iterator_call>>

vars == <<dequeVars, adapterVars, memoryVars, pointerVars, callVars, pairVars, arrayVars, lifetimeVars, iteratorVars>>

(***************************************************************************)
(* Each specification exercises one part of the library; the variables of  *)
(* the other parts keep these values.                                      *)
(***************************************************************************)

\* the variables of the adapter while another part of the library is under test
IdleAdapter ==
    /\ adapter = "none"
    /\ container_type = "none"
    /\ container = [elements |-> [slot \in Slots |-> 1], element_count |-> 0, first_index |-> 0]
    /\ calls = "other"
    /\ before = <<>>
    /\ pushed = <<>>
    /\ popped = 0

\* the variables of the memories while another part of the library is under test
IdleMemory ==
    /\ eeprom = [cells |-> [address \in 0 .. (EepromSize - 1) |-> 0],
                 wear |-> [address \in 0 .. (EepromSize - 1) |-> 0]]
    /\ progmem = [address \in 0 .. (ProgmemSize - 1) |-> 0]
    /\ placed = [type |-> "char", address |-> 0, value |-> 0]
    /\ eeprom_type = "char"
    /\ call = [op |-> "none", type |-> "char", address |-> 0, value |-> <<>>]
    /\ result = <<>>
    /\ tracked = <<>>

\* the pointer object while another part of the library is under test
IdlePointer ==
    /\ pointer_object = [class |-> "none", array |-> 0, pointer |-> 0]
    /\ pointer_calls = <<>>

\* the array object while another part of the library is under test
IdleArray ==
    /\ array_class = "none"
    /\ array_capacity = 0
    /\ array_elements = <<>>
    /\ array_call = [op |-> "none", value |-> <<>>, before |-> <<>>, result |-> <<>>]

\* the two objects while another part of the library is under test
IdlePair ==
    /\ pair_adapter = "none"
    /\ pair_type = "none"
    /\ pair = <<>>
    /\ pair_calls = 0
    /\ pair_op = "none"

\* the owning deque while another part of the library is under test
IdleLifetime ==
    /\ owner_type = "none"
    /\ owner = [elements |-> [slot \in Slots |-> 1], element_count |-> 0, first_index |-> 0]
    /\ trace = [op |-> "none", destroyed |-> <<>>, ended |-> TRUE, read |-> {}, written |-> {}]
    /\ unreleased = {}

\* the iterators while another part of the library is under test
IdleIterator ==
    /\ reverse_iterator = [iterator |-> 0]
    /\ iterator_call = [op |-> "none", arguments |-> <<>>, returned |-> <<>>]

\* the deque under calls while another part of the library is under test
IdleCall ==
    /\ container_safety = FALSE
    /\ callee_type = "none"
    /\ callee = [elements |-> [slot \in Slots |-> 1], element_count |-> 0, first_index |-> 0]
    /\ member = "none"
    /\ precondition = TRUE
    /\ argument = <<>>
    /\ return_value = <<>>

\* the variables of the two deques while another part of the library is under test
IdleDeque ==
    /\ deque = [elements |-> [slot \in Slots |-> 1], element_count |-> 0]
    /\ circular = [elements |-> [slot \in Slots |-> 1], element_count |-> 0, first_index |-> 0]
    /\ op = "none"
    /\ pushed_front = <<>>
    /\ pushed_back = <<>>
    /\ only_pushed = TRUE

(***************************************************************************)
(* utils/containers/Deque.h                                                *)
(***************************************************************************)

Deque_get_first_index(d) == 0

Deque_get_last_index(d) == Wrap(d.element_count - 1)

Deque_get_begin_index(d) == 0

Deque_get_end_index(d) == d.element_count

Deque_empty(d) == d.element_count = 0

Deque_size(d) == d.element_count

Deque_max_size(d) == Capacity

\* the slot of `elements` that front() returns a reference to
Deque_front(d) == Deque_get_first_index(d)

\* the slot of `elements` that back() returns a reference to
Deque_back(d) == Deque_get_last_index(d)

\* the slot of `elements` that operator[](index) returns a reference to
Deque_subscript(d, index) == index

\* iterator = pointer: an iterator is the offset of the pointer into `elements`
Deque_begin(d) == Deque_get_begin_index(d)

Deque_end(d) == Deque_get_end_index(d)

Deque_push_back(d, value) ==
    [d EXCEPT !.elements[d.element_count] = value,
              !.element_count = Wrap(d.element_count + 1)]

Deque_pop_back(d) ==
    [d EXCEPT !.element_count = Wrap(d.element_count - 1)]

\* for(index = element_count; index > 0; --index) elements[index] = move(elements[index - 1]);
RECURSIVE Deque_shift_back(_, _)
Deque_shift_back(elements, index) ==
    IF index > 0
    THEN Deque_shift_back([elements EXCEPT ![index] = elements[index - 1]], index - 1)
    ELSE elements

\* a push_front that counts every shifted element as well as the new one
Deque_push_front_counting_shifts(d, value) ==
    LET shifted == Deque_shift_back(d.elements, d.element_count)
    IN  [d EXCEPT !.elements = [shifted EXCEPT ![0] = value],
                  !.element_count = Wrap(d.element_count + d.element_count + 1)]

Deque_push_front(d, value) ==
    LET shifted == Deque_shift_back(d.elements, d.element_count)
    IN  [d EXCEPT !.elements = [shifted EXCEPT ![0] = value],
                  !.element_count = Wrap(d.element_count + 1)]

\* for(index = 0; index < element_count; ++index) elements[index] = move(elements[index + 1]);
\* The last iteration reads elements[element_count]; on a full deque that is
\* elements[capacity], one past the array: the read yields `beyond`.
RECURSIVE Deque_shift_forward(_, _, _, _)
Deque_shift_forward(elements, index, element_count, beyond) ==
    IF index < element_count
    THEN LET source == IF index + 1 < Capacity THEN elements[index + 1] ELSE beyond
         IN  Deque_shift_forward([elements EXCEPT ![index] = source],
                                 index + 1, element_count, beyond)
    ELSE elements

Deque_pop_front(d, beyond) ==
    [d EXCEPT !.elements = Deque_shift_forward(d.elements, 0, d.element_count, beyond),
              !.element_count = Wrap(d.element_count - 1)]

\* while(next != end_iterator) { *current = move(*next); ++current; ++next; }
RECURSIVE Deque_erase_loop(_, _, _, _)
Deque_erase_loop(elements, current, next, end_iterator) ==
    IF next # end_iterator
    THEN Deque_erase_loop([elements EXCEPT ![current] = elements[next]],
                          current + 1, next + 1, end_iterator)
    ELSE elements

\* an erase that drops the last element instead of moving the later ones forward
Deque_erase_without_moving(d, element_iterator) ==
    [d EXCEPT !.element_count = Wrap(d.element_count - 1)]

Deque_erase(d, element_iterator) ==
    [d EXCEPT !.elements = Deque_erase_loop(d.elements, element_iterator,
                                            element_iterator + 1, Deque_end(d)),
              !.element_count = Wrap(d.element_count - 1)]

\* the destructor calls of the loop leave the slots' bytes as they are
Deque_clear(d) == [d EXCEPT !.element_count = 0]

\* the elements a range-for from begin() to end() visits
RECURSIVE Deque_iterate(_, _, _)
Deque_iterate(d, iterator, end_iterator) ==
    IF iterator # end_iterator
    THEN <<d.elements[iterator]>> \o Deque_iterate(d, iterator + 1, end_iterator)
    ELSE <<>>

Deque_contents(d) == Deque_iterate(d, Deque_begin(d), Deque_end(d))

(***************************************************************************)
(* utils/containers/CircularDeque.h, utils/containers/IndexIterator.h      *)
(***************************************************************************)

offset_index(index, offset) == Wrap(index + offset) % Capacity

adjust_index(c, index) == Wrap(c.first_index + index) % Capacity

get_first_index(c) == c.first_index

\* a last index that is the end index: one past the last element
get_last_index_past_the_end(c) == adjust_index(c, c.element_count)

get_last_index(c) == adjust_index(c, Wrap(c.element_count - 1))

get_begin_index(c) == c.first_index

get_end_index(c) == adjust_index(c, c.element_count)

\* a next index that does not wrap at the end of the array
get_next_index_unwrapped(index) == Wrap(index + 1)

get_next_index(index) == Wrap(index + 1) % Capacity

\* a previous index that steps forward instead of backward
get_previous_index_forward(index) == Wrap(index + 1) % Capacity

get_previous_index(index) == Wrap(index + (Capacity - 1)) % Capacity

CircularDeque_empty(c) == c.element_count = 0

CircularDeque_size(c) == c.element_count

CircularDeque_max_size(c) == Capacity

\* the slot of `elements` that front() returns a reference to
CircularDeque_front(c) == get_first_index(c)

\* the slot of `elements` that back() returns a reference to
CircularDeque_back(c) == get_last_index(c)

\* the slot of `elements` that operator[](index) returns a reference to
CircularDeque_subscript(c, index) == adjust_index(c, index)

\* IndexIterator: the container is `c`, the iterator is its `index` member
IndexIterator_make_begin(c) == 0

\* a make_end that holds the physical end index instead of the size
IndexIterator_make_end_physical(c) == get_end_index(c)

IndexIterator_make_end(c) == CircularDeque_size(c)

\* an iterator that indexes the array itself instead of calling operator[]
IndexIterator_dereference_raw(c, index) == index % Capacity

IndexIterator_dereference(c, index) == CircularDeque_subscript(c, index)

IndexIterator_increment(index) == Wrap(index + 1)

CircularDeque_begin(c) == IndexIterator_make_begin(c)

CircularDeque_end(c) == IndexIterator_make_end(c)

CircularDeque_push_back(c, value) ==
    LET end_index == get_end_index(c)
    IN  [c EXCEPT !.elements[end_index] = value,
                  !.element_count = Wrap(c.element_count + 1)]

\* a pop_back that takes the element away at the front
CircularDeque_pop_back_at_front(c) ==
    [c EXCEPT !.first_index = get_next_index(c.first_index),
              !.element_count = Wrap(c.element_count - 1)]

CircularDeque_pop_back(c) ==
    [c EXCEPT !.element_count = Wrap(c.element_count - 1)]

CircularDeque_push_front(c, value) ==
    LET first == get_previous_index(c.first_index)
    IN  [c EXCEPT !.first_index = first,
                  !.elements[first] = value,
                  !.element_count = Wrap(c.element_count + 1)]

CircularDeque_pop_front(c) ==
    [c EXCEPT !.first_index = get_next_index(c.first_index),
              !.element_count = Wrap(c.element_count - 1)]

\* while(next != end_iterator) { *current = move(*next); ++current; ++next; }
RECURSIVE CircularDeque_erase_loop(_, _, _, _)
CircularDeque_erase_loop(c, current, next, end_iterator) ==
    IF next # end_iterator
    THEN CircularDeque_erase_loop(
             [c EXCEPT !.elements[IndexIterator_dereference(c, current)] =
                           c.elements[IndexIterator_dereference(c, next)]],
             IndexIterator_increment(current), IndexIterator_increment(next),
             end_iterator)
    ELSE c

CircularDeque_erase(c, element_iterator) ==
    LET moved == CircularDeque_erase_loop(c, element_iterator,
                     IndexIterator_increment(element_iterator), CircularDeque_end(c))
    IN  [moved EXCEPT !.element_count = Wrap(c.element_count - 1)]

\* the destructor calls of the loop leave the slots' bytes as they are
CircularDeque_clear(c) == [c EXCEPT !.element_count = 0, !.first_index = 0]

\* the elements a range-for from begin() to end() visits
RECURSIVE CircularDeque_iterate(_, _, _)
CircularDeque_iterate(c, iterator, end_iterator) ==
    IF iterator # end_iterator
    THEN <<c.elements[IndexIterator_dereference(c, iterator)]>>
             \o CircularDeque_iterate(c, IndexIterator_increment(iterator), end_iterator)
    ELSE <<>>

CircularDeque_contents(c) ==
    CircularDeque_iterate(c, CircularDeque_begin(c), CircularDeque_end(c))

(***************************************************************************)
(* The two deques under the same calls.  Each action is one member         *)
(* function, called on both deques with the same arguments; its guard is   *)
(* the function's documented precondition.                                 *)
(***************************************************************************)

\* utils::Array<value_type, capacity> elements is default-initialised: its
\* content is indeterminate; element_count and first_index start at 0
InitDeque ==
    /\ deque \in [elements : [Slots -> Values], element_count : {0}]
    /\ circular \in [elements : [Slots -> Values], element_count : {0}, first_index : {0}]
    /\ op = "construct"
    /\ pushed_front = <<>>
    /\ pushed_back = <<>>
    /\ only_pushed = TRUE
    /\ IdleAdapter
    /\ IdleMemory
    /\ IdlePointer
    /\ IdleCall
    /\ IdlePair
    /\ IdleArray
    /\ IdleLifetime
    /\ IdleIterator

\* the record of the pushes restarts whenever the deques are empty again
Removed(name) ==
    /\ op' = name
    /\ pushed_front' = <<>>
    /\ pushed_back' = <<>>
    /\ only_pushed' = (CircularDeque_size(circular') = 0 /\ Deque_size(deque') = 0)
    /\ UNCHANGED <<adapterVars, memoryVars, pointerVars, callVars, pairVars, arrayVars, lifetimeVars, iteratorVars>>

push_back(value) ==
    /\ Deque_size(deque) < Deque_max_size(deque)
    /\ CircularDeque_size(circular) < CircularDeque_max_size(circular)
    /\ deque' = Deque_push_back(deque, value)
    /\ circular' = CircularDeque_push_back(circular, value)
    /\ op' = "push_back"
    /\ pushed_back' = IF only_pushed THEN Append(pushed_back, value) ELSE <<>>
    /\ UNCHANGED <<pushed_front, only_pushed, adapterVars, memoryVars, pointerVars, callVars, pairVars, arrayVars, lifetimeVars, iteratorVars>>

push_front(value) ==
    /\ Deque_size(deque) < Deque_max_size(deque)
    /\ CircularDeque_size(circular) < CircularDeque_max_size(circular)
    /\ deque' = Deque_push_front(deque, value)
    /\ circular' = CircularDeque_push_front(circular, value)
    /\ op' = "push_front"
    /\ pushed_front' = IF only_pushed THEN Append(pushed_front, value) ELSE <<>>
    /\ UNCHANGED <<pushed_back, only_pushed, adapterVars, memoryVars, pointerVars, callVars, pairVars, arrayVars, lifetimeVars, iteratorVars>>

pop_back ==
    /\ Deque_size(deque) > 0
    /\ CircularDeque_size(circular) > 0
    /\ deque' = Deque_pop_back(deque)
    /\ circular' = CircularDeque_pop_back(circular)
    /\ Removed("pop_back")

pop_front ==
    /\ Deque_size(deque) > 0
    /\ CircularDeque_size(circular) > 0
    /\ \E beyond \in Values : deque' = Deque_pop_front(deque, beyond)
    /\ circular' = CircularDeque_pop_front(circular)
    /\ Removed("pop_front")

\* erase(begin() + position)
erase(position) ==
    /\ Deque_size(deque) > 0
    /\ CircularDeque_size(circular) > 0
    /\ position < Deque_size(deque)
    /\ position < CircularDeque_size(circular)
    /\ deque' = Deque_erase(deque, Deque_begin(deque) + position)
    /\ circular' = CircularDeque_erase(circular, Wrap(CircularDeque_begin(circular) + position))
    /\ Removed("erase")

clear ==
    /\ deque' = Deque_clear(deque)
    /\ circular' = CircularDeque_clear(circular)
    /\ Removed("clear")

NextDeque ==
    \/ \E value \in Values : push_back(value)
    \/ \E value \in Values : push_front(value)
    \/ pop_back
    \/ pop_front
    \/ \E position \in Slots : erase(position)
    \/ clear

(***************************************************************************)
(* Properties of the deques.                                               *)
(***************************************************************************)

RECURSIVE Reverse(_)
Reverse(sequence) ==
    IF sequence = <<>> THEN <<>>
    ELSE Append(Reverse(Tail(sequence)), Head(sequence))

\* the live range of the circular deque runs past the last slot of the array
Wrapped(c) == c.first_index + c.element_count > Capacity

\* C1: after any sequence of push_back, push_front, pop_back, pop_front, erase
\* and clear that meets the preconditions, 0 <= size() <= N on both deques.
C1_SizeWithinCapacity ==
    /\ Deque_size(deque) \in 0 .. Deque_max_size(deque)
    /\ CircularDeque_size(circular) \in 0 .. CircularDeque_max_size(circular)

\* both deques are full after a removal was followed by pushes at both ends
C1_Witness ==
    /\ Deque_size(deque) = Capacity
    /\ CircularDeque_size(circular) = Capacity
    /\ circular.first_index # 0
    /\ ~only_pushed

\* C2: after k <= N pushes at either end of an empty CircularDeque, size() = k
\* and iteration from begin() to end() yields the push_front values in reverse
\* order of insertion followed by the push_back values in order of insertion.
C2_PushOrder ==
    only_pushed =>
        /\ CircularDeque_size(circular) = Len(pushed_front) + Len(pushed_back)
        /\ CircularDeque_contents(circular) = Reverse(pushed_front) \o pushed_back

\* the deque was filled by pushes at both ends
C2_Witness ==
    /\ only_pushed
    /\ Len(pushed_front) >= 1
    /\ Len(pushed_back) >= 1
    /\ Len(pushed_front) + Len(pushed_back) = Capacity
    /\ CircularDeque_size(circular) = Capacity

\* C3: under the same sequence of calls, Deque and CircularDeque report the
\* same size() and the same front-to-back sequence of elements after every call.
C3_SameBehaviour ==
    /\ Deque_size(deque) = CircularDeque_size(circular)
    /\ Deque_contents(deque) = CircularDeque_contents(circular)

\* an erase has just left a circular deque that wraps and holds two different values
C3_Witness ==
    /\ op = "erase"
    /\ Wrapped(circular)
    /\ CircularDeque_size(circular) >= 2
    /\ \E i, j \in 1 .. Len(Deque_contents(deque)) :
           Deque_contents(deque)[i] # Deque_contents(deque)[j]

\* C4: on a non-empty deque, front() is the element operator[](0) and back()
\* is the element operator[](size() - 1).
C4_FrontBackAreEnds ==
    /\ Deque_size(deque) > 0 =>
           /\ Deque_front(deque) = Deque_subscript(deque, 0)
           /\ Deque_back(deque) = Deque_subscript(deque, Deque_size(deque) - 1)
    /\ CircularDeque_size(circular) > 0 =>
           /\ CircularDeque_front(circular) = CircularDeque_subscript(circular, 0)
           /\ CircularDeque_back(circular) =
                  CircularDeque_subscript(circular, CircularDeque_size(circular) - 1)

\* a circular deque whose back element lies in a slot before its front element
C4_Witness ==
    /\ CircularDeque_size(circular) >= 2
    /\ CircularDeque_back(circular) < CircularDeque_front(circular)
    /\ Deque_size(deque) >= 2


(***************************************************************************)
(* utils/containers/Stack.h, utils/containers/Queue.h                      *)
(*                                                                         *)
(* An adapter is a template over its Container; `type` is that argument    *)
(* and `c` is the member `container`.                                      *)
(***************************************************************************)

Container_size(type, c) ==
    IF type = "Deque" THEN Deque_size(c) ELSE CircularDeque_size(c)

Container_max_size(type, c) ==
    IF type = "Deque" THEN Deque_max_size(c) ELSE CircularDeque_max_size(c)

Container_front(type, c) ==
    IF type = "Deque" THEN Deque_front(c) ELSE CircularDeque_front(c)

Container_back(type, c) ==
    IF type = "Deque" THEN Deque_back(c) ELSE CircularDeque_back(c)

Container_push_back(type, c, value) ==
    IF type = "Deque" THEN Deque_push_back(c, value) ELSE CircularDeque_push_back(c, value)

Container_push_front(type, c, value) ==
    IF type = "Deque" THEN Deque_push_front(c, value) ELSE CircularDeque_push_front(c, value)

Container_pop_back(type, c) ==
    IF type = "Deque" THEN Deque_pop_back(c) ELSE CircularDeque_pop_back(c)

Container_pop_front(type, c, beyond) ==
    IF type = "Deque" THEN Deque_pop_front(c, beyond) ELSE CircularDeque_pop_front(c)

Container_contents(type, c) ==
    IF type = "Deque" THEN Deque_contents(c) ELSE CircularDeque_contents(c)

Stack_size(type, c) == Container_size(type, c)

Stack_max_size(type, c) == Container_max_size(type, c)

\* the slot of the container's array that top() returns a reference to
Stack_top(type, c) == Container_back(type, c)

\* a push that forwards to push_front
Stack_push_to_front(type, c, value) == Container_push_front(type, c, value)

Stack_push(type, c, value) == Container_push_back(type, c, value)

Stack_pop(type, c, beyond) == Container_pop_back(type, c)

Queue_size(type, c) == Container_size(type, c)

Queue_max_size(type, c) == Container_max_size(type, c)

\* the slot of the container's array that front() returns a reference to
Queue_front(type, c) == Container_front(type, c)

\* the slot of the container's array that back() returns a reference to
Queue_back(type, c) == Container_back(type, c)

Queue_push(type, c, value) == Container_push_back(type, c, value)

\* a pop that forwards to pop_back
Queue_pop_from_back(type, c, beyond) == Container_pop_back(type, c)

Queue_pop(type, c, beyond) == Container_pop_front(type, c, beyond)

\* template dispatch on the adapter
Adapter_size(a, type, c) ==
    IF a = "Stack" THEN Stack_size(type, c) ELSE Queue_size(type, c)

Adapter_max_size(a, type, c) ==
    IF a = "Stack" THEN Stack_max_size(type, c) ELSE Queue_max_size(type, c)

Adapter_push(a, type, c, value) ==
    IF a = "Stack" THEN Stack_push(type, c, value) ELSE Queue_push(type, c, value)

Adapter_pop(a, type, c, beyond) ==
    IF a = "Stack" THEN Stack_pop(type, c, beyond) ELSE Queue_pop(type, c, beyond)

(***************************************************************************)
(* One adapter object under calls of push and pop.  FastQueue is Queue     *)
(* over CircularDeque.                                                     *)
(***************************************************************************)

InitAdapter ==
    /\ adapter \in {"Stack", "Queue"}
    /\ container_type \in {"Deque", "CircularDeque"}
    /\ container \in [elements : [Slots -> Values], element_count : {0}, first_index : {0}]
    /\ calls = "other"
    /\ before = <<>>
    /\ pushed = <<>>
    /\ popped = 0
    /\ IdleDeque
    /\ IdleMemory
    /\ IdlePointer
    /\ IdleCall
    /\ IdlePair
    /\ IdleArray
    /\ IdleLifetime
    /\ IdleIterator

push(value) ==
    /\ adapter \in {"Stack", "Queue"}
    /\ Len(pushed) < MaxPushes
    /\ Adapter_size(adapter, container_type, container)
           < Adapter_max_size(adapter, container_type, container)
    /\ container' = Adapter_push(adapter, container_type, container, value)
    /\ calls' = "push"
    /\ before' = Container_contents(container_type, container)
    /\ pushed' = Append(pushed, value)
    /\ UNCHANGED <<adapter, container_type, popped, dequeVars, memoryVars, pointerVars, callVars, pairVars, arrayVars, lifetimeVars, iteratorVars>>

pop ==
    /\ adapter \in {"Stack", "Queue"}
    /\ Adapter_size(adapter, container_type, container) > 0
    /\ \E beyond \in Values :
           container' = Adapter_pop(adapter, container_type, container, beyond)
    /\ calls' = IF calls = "push" THEN "push_pop" ELSE "other"
    /\ popped' = popped + 1
    /\ UNCHANGED <<adapter, container_type, before, pushed, dequeVars, memoryVars, pointerVars, callVars, pairVars, arrayVars, lifetimeVars, iteratorVars>>

NextAdapter ==
    \/ \E value \in Values : push(value)
    \/ pop

SpecAdapter == InitAdapter /\ [][NextAdapter]_vars

(***************************************************************************)
(* Properties of the adapters.                                             *)
(***************************************************************************)

\* C5 as stated: for every adapter (Stack, Queue, FastQueue), push(v); pop()
\* leaves the container with the size and the elements it had before the push.
C5_PushPopRestoresEveryAdapter ==
    calls = "push_pop" =>
        /\ Container_size(container_type, container) = Len(before)
        /\ Container_contents(container_type, container) = before

\* C5 as amended: push(v); pop() leaves the size as it was before the push;
\* through a Stack the elements are those before the push, through a Queue
\* (FastQueue too) they are those before the push without the first of them,
\* followed by v.
C5_PushPop ==
    calls = "push_pop" =>
        /\ Container_size(container_type, container) = Len(before)
        /\ Container_contents(container_type, container) =
               IF adapter = "Stack"
               THEN before
               ELSE Tail(Append(before, pushed[Len(pushed)]))

\* push(v); pop() has run on a container that the push filled and that held a
\* value other than v
C5_Witness ==
    /\ calls = "push_pop"
    /\ Len(before) = Capacity - 1
    /\ before[1] # pushed[Len(pushed)]

\* C6: a Queue over either deque is first in, first out: while it holds an
\* element, front() is the (popped + 1)-th value pushed and back() is the value
\* pushed last, also after more than N pushes in total.
C6_QueueIsFifo ==
    (adapter = "Queue" /\ Queue_size(container_type, container) > 0) =>
        /\ container.elements[Queue_front(container_type, container)] = pushed[popped + 1]
        /\ container.elements[Queue_back(container_type, container)] = pushed[Len(pushed)]

\* a FastQueue that wrapped around after more than N pushes
C6_Witness ==
    /\ adapter = "Queue"
    /\ container_type = "CircularDeque"
    /\ Len(pushed) > Capacity
    /\ popped >= 1
    /\ Wrapped(container)
    /\ pushed[popped + 1] # pushed[Len(pushed)]

(***************************************************************************)
(* The two memories.                                                       *)
(*                                                                         *)
(* A C++ value is a number (char, enum, uint16_t, pointer) or the tuple of *)
(* the bytes of its members (struct).  It lies in memory as its object     *)
(* representation: sizeof(Type) bytes, scalars little-endian as avr-gcc    *)
(* lays them out.                                                          *)
(***************************************************************************)

Bytes == 0 .. (NumByteValues - 1)

EepromAddresses == 0 .. (EepromSize - 1)

ProgmemAddresses == 0 .. (ProgmemSize - 1)

\* the types the EEPROM functions are instantiated with
EepromTypes == {"char", "uint16_t", "pointer", "struct"}

\* the types the program memory functions are instantiated with
ProgmemTypes == {"char", "enum", "uint16_t", "pointer", "struct"}

SizeOf(type) ==
    CASE type \in {"char", "enum"} -> 1
      [] type \in {"uint16_t", "pointer"} -> 2
      [] type = "struct" -> StructSize

\* the values of a type whose bytes are all in Bytes
ValuesOf(type) ==
    CASE type \in {"char", "enum"} -> Bytes
      [] type \in {"uint16_t", "pointer"} -> {low + 256 * high : low \in Bytes, high \in Bytes}
      [] type = "struct" -> [1 .. StructSize -> Bytes]

\* the object representation of a value
ObjectBytes(type, value) ==
    CASE type \in {"char", "enum"} -> <<value>>
      [] type \in {"uint16_t", "pointer"} -> <<value % 256, value \div 256>>
      [] type = "struct" -> value

\* the value of an object of class type from the bytes copied into it
FromBytes(type, bytes) ==
    CASE type \in {"char", "enum"} -> bytes[1]
      [] type \in {"uint16_t", "pointer"} -> bytes[1] + 256 * bytes[2]
      [] type = "struct" -> bytes

(***************************************************************************)
(* <avr/pgmspace.h>, as utils/progmem/details calls it                     *)
(***************************************************************************)

pgm_read_byte(memory, address) == memory[address]

pgm_read_word(memory, address) == memory[address] + 256 * memory[address + 1]

\* pointers are 16 bits wide on AVR
pgm_read_ptr(memory, address) == pgm_read_word(memory, address)

\* the bytes memcpy_P stores at its destination
memcpy_P(memory, source, size) == [i \in 1 .. size |-> memory[source + i - 1]]

(***************************************************************************)
(* utils/progmem/details/read_details.h, copy_details.h, readProgmem.h,    *)
(* copyProgmem.h, ProgmemReference.h                                       *)
(***************************************************************************)

\* read_progmem_helper<Type, sizeof(Type)>::read_progmem
read_progmem_helper(memory, object, type) ==
    IF SizeOf(type) = 1
    THEN FromBytes(type, <<pgm_read_byte(memory, object)>>)
    ELSE FromBytes(type, memcpy_P(memory, object, SizeOf(type)))

\* a read that takes every type for a single byte
read_progmem_bytewise(memory, object, type) ==
    CASE type \in {"char", "enum", "uint16_t", "pointer"} -> pgm_read_byte(memory, object)
      [] OTHER -> read_progmem_helper(memory, object, type)

\* overload resolution of details::read_progmem
read_progmem(memory, object, type) ==
    CASE type = "char" -> pgm_read_byte(memory, object)
      [] type = "uint16_t" -> pgm_read_word(memory, object)
      [] type = "pointer" -> pgm_read_ptr(memory, object)
      [] OTHER -> read_progmem_helper(memory, object, type)

\* copy_progmem_helper<Type, sizeof(Type)>::copy_progmem: the value of
\* `destination` after the call
copy_progmem(memory, source, type) ==
    CASE SizeOf(type) = 1 -> FromBytes(type, <<pgm_read_byte(memory, source)>>)
      [] type = "pointer" -> pgm_read_ptr(memory, source)
      [] OTHER -> FromBytes(type, memcpy_P(memory, source, SizeOf(type)))

readProgmem(memory, object, type) == read_progmem(memory, object, type)

copyProgmem(memory, source, type) == copy_progmem(memory, source, type)

\* ProgmemReference::operator value_type
ProgmemReference_value(memory, pointer, type) == readProgmem(memory, pointer, type)

\* ProgmemPointer::operator*: the `pointer` of the ProgmemReference it returns
ProgmemPointer_dereference(pointer) == pointer

ProgmemPointer_increment(pointer) == pointer + 1

ProgmemPointer_decrement(pointer) == pointer - 1

\* ProgmemArray<char, ProgmemSize> and ProgmemString over the whole of the
\* modelled program memory: `elements` and `string` are its first address
ProgmemArray_subscript(elements, index) == elements + index

ProgmemArray_begin(elements) == elements

ProgmemArray_end(elements) == elements + ProgmemSize

ProgmemString_begin(string) == string

\* an end() that stops before the last character
ProgmemString_end_before_last(string, string_size) == string + string_size - 1

ProgmemString_end(string, string_size) == string + string_size

\* the characters a range-for over a ProgmemArray or ProgmemString reads
RECURSIVE Progmem_iterate(_, _, _)
Progmem_iterate(memory, iterator, end_iterator) ==
    IF iterator # end_iterator
    THEN <<ProgmemReference_value(memory, ProgmemPointer_dereference(iterator), "char")>>
             \o Progmem_iterate(memory, ProgmemPointer_increment(iterator), end_iterator)
    ELSE <<>>

\* a size() that counts the terminator as a character
RECURSIVE ProgmemNullString_size_with_terminator(_, _)
ProgmemNullString_size_with_terminator(memory, current) ==
    IF pgm_read_byte(memory, current) # 0
    THEN 1 + ProgmemNullString_size_with_terminator(memory, current + 1)
    ELSE 1

\* for(current = string; pgm_read_byte(current) != '\0'; ++current) ++result;
RECURSIVE ProgmemNullString_size(_, _)
ProgmemNullString_size(memory, current) ==
    IF pgm_read_byte(memory, current) # 0
    THEN 1 + ProgmemNullString_size(memory, current + 1)
    ELSE 0

\* the addresses that loop passes to pgm_read_byte, in the order of the reads
RECURSIVE ProgmemNullString_size_reads(_, _)
ProgmemNullString_size_reads(memory, current) ==
    IF pgm_read_byte(memory, current) # 0
    THEN <<current>> \o ProgmemNullString_size_reads(memory, current + 1)
    ELSE <<current>>

(***************************************************************************)
(* <avr/eeprom.h>, as utils/eeprom/details calls it.  `e` is the EEPROM;   *)
(* a function that writes yields the EEPROM after the call.                *)
(***************************************************************************)

eeprom_read_byte(e, address) == e.cells[address]

eeprom_read_word(e, address) == e.cells[address] + 256 * e.cells[address + 1]

eeprom_read_ptr(e, address) == eeprom_read_word(e, address)

\* the bytes eeprom_read_block stores at its destination
eeprom_read_block(e, source, size) == [i \in 1 .. size |-> e.cells[source + i - 1]]

\* an erase and write cycle of one cell
eeprom_write_byte(e, address, byte) ==
    [cells |-> [e.cells EXCEPT ![address] = byte],
     wear |-> [e.wear EXCEPT ![address] = @ + 1]]

RECURSIVE eeprom_write_block(_, _, _, _)
eeprom_write_block(e, source, destination, size) ==
    IF size = 0 THEN e
    ELSE eeprom_write_block(eeprom_write_byte(e, destination, Head(source)),
                            Tail(source), destination + 1, size - 1)

eeprom_write_word(e, address, word) ==
    eeprom_write_block(e, <<word % 256, word \div 256>>, address, 2)

\* writes the cell only if it holds another byte
eeprom_update_byte(e, address, byte) ==
    IF eeprom_read_byte(e, address) # byte
    THEN eeprom_write_byte(e, address, byte)
    ELSE e

RECURSIVE eeprom_update_block(_, _, _, _)
eeprom_update_block(e, source, destination, size) ==
    IF size = 0 THEN e
    ELSE eeprom_update_block(eeprom_update_byte(e, destination, Head(source)),
                             Tail(source), destination + 1, size - 1)

eeprom_update_word(e, address, word) ==
    eeprom_update_block(e, <<word % 256, word \div 256>>, address, 2)

(***************************************************************************)
(* utils/eeprom/details, readEeprom.h, writeEeprom.h, overwriteEeprom.h,   *)
(* EepromReference.h, EepromPointer.h, EepromArray.h                       *)
(***************************************************************************)

\* read_eeprom_helper<Type, sizeof(Type)>::read_eeprom
read_eeprom_helper(e, object, type) ==
    FromBytes(type, eeprom_read_block(e, object, SizeOf(type)))

\* overload resolution of details::read_eeprom
read_eeprom(e, object, type) ==
    CASE type = "char" -> eeprom_read_byte(e, object)
      [] type = "uint16_t" -> eeprom_read_word(e, object)
      [] type = "pointer" -> eeprom_read_ptr(e, object)
      [] OTHER -> read_eeprom_helper(e, object, type)

\* update_eeprom_helper<Type, sizeof(Type)>::update_eeprom
update_eeprom_helper(e, destination, source, type) ==
    eeprom_update_block(e, ObjectBytes(type, source), destination, SizeOf(type))

\* an update whose block is a single byte
update_eeprom_one_byte(e, destination, source, type) ==
    eeprom_update_byte(e, destination, Head(ObjectBytes(type, source)))

\* overload resolution of details::update_eeprom
update_eeprom(e, destination, source, type) ==
    CASE type = "char" -> eeprom_update_byte(e, destination, source)
      [] type = "uint16_t" -> eeprom_update_word(e, destination, source)
      [] OTHER -> update_eeprom_helper(e, destination, source, type)

\* write_eeprom_helper<Type, sizeof(Type)>::write_eeprom
write_eeprom_helper(e, destination, source, type) ==
    eeprom_write_block(e, ObjectBytes(type, source), destination, SizeOf(type))

\* overload resolution of details::write_eeprom
write_eeprom(e, destination, source, type) ==
    CASE type = "char" -> eeprom_write_byte(e, destination, source)
      [] type = "uint16_t" -> eeprom_write_word(e, destination, source)
      [] OTHER -> write_eeprom_helper(e, destination, source, type)

\* a read that writes back what it read: the EEPROM after the call and the value
readEeprom_writing_back(e, object, type) ==
    [eeprom |-> write_eeprom(e, object, read_eeprom(e, object, type), type),
     value |-> read_eeprom(e, object, type)]

\* the EEPROM after the call and the value returned
readEeprom(e, object, type) ==
    [eeprom |-> e, value |-> read_eeprom(e, object, type)]

\* a writeEeprom that writes unconditionally
writeEeprom_unconditional(e, destination, source, type) ==
    write_eeprom(e, destination, source, type)

writeEeprom(e, destination, source, type) == update_eeprom(e, destination, source, type)

overwriteEeprom(e, destination, source, type) == write_eeprom(e, destination, source, type)

\* EepromReference::operator=
EepromReference_assign(e, pointer, value, type) == writeEeprom(e, pointer, value, type)

\* EepromReference::operator value_type
EepromReference_value(e, pointer, type) == readEeprom(e, pointer, type)

\* EepromPointer::operator*: the `pointer` of the EepromReference it returns
EepromPointer_dereference(pointer) == pointer

EepromPointer_increment(pointer) == pointer + 1

EepromPointer_decrement(pointer) == pointer - 1

\* EepromArray<char, EepromSize> over the whole of the modelled EEPROM:
\* `elements` is its first address
EepromArray_subscript(elements, index) == elements + index

EepromArray_begin(elements) == elements

EepromArray_end(elements) == elements + EepromSize

\* a range-for over an EepromArray: the EEPROM after it and the characters read
RECURSIVE Eeprom_iterate(_, _, _)
Eeprom_iterate(e, iterator, end_iterator) ==
    IF iterator # end_iterator
    THEN LET read == EepromReference_value(e, EepromPointer_dereference(iterator), "char")
             rest == Eeprom_iterate(read.eeprom, EepromPointer_increment(iterator),
                                    end_iterator)
         IN  [eeprom |-> rest.eeprom, value |-> <<read.value>> \o rest.value]
    ELSE [eeprom |-> e, value |-> <<>>]

(***************************************************************************)
(* Calls into utils/eeprom and utils/progmem.  Every action is one call;   *)
(* it records the call and what it returned.  A pointer object is an       *)
(* argument of the call that dereferences or steps it.                     *)
(***************************************************************************)

\* the addresses an object of `type` at `address` occupies
Range(address, type) == address .. (address + SizeOf(type) - 1)

Called(name, type, address, value) ==
    call' = [op |-> name, type |-> type, address |-> address, value |-> value]

\* a write replaces the tracked write if it overlaps it, and is a write to
\* another location otherwise
Track(address, type, value) ==
    IF tracked = <<>> \/ Range(address, type) \cap Range(tracked[1].address, tracked[1].type) # {}
    THEN <<[address |-> address, type |-> type, value |-> value, interleaved |-> FALSE]>>
    ELSE <<[tracked[1] EXCEPT !.interleaved = TRUE]>>

\* the number of cell writes the cells from `address` on have received
RECURSIVE CellWrites(_, _)
CellWrites(e, address) ==
    IF address = EepromSize THEN 0 ELSE e.wear[address] + CellWrites(e, address + 1)

\* the EEPROM holds any bytes before the program runs and no cell was written
\* yet; the program keeps objects of one of the types in it
InitEeprom ==
    /\ eeprom \in [cells : [EepromAddresses -> Bytes], wear : {[address \in EepromAddresses |-> 0]}]
    /\ progmem = [address \in ProgmemAddresses |-> 0]
    /\ placed = [type |-> "char", address |-> 0, value |-> 0]
    /\ eeprom_type \in EepromTypes
    /\ call = [op |-> "none", type |-> "char", address |-> 0, value |-> <<>>]
    /\ result = <<>>
    /\ tracked = <<>>
    /\ IdleDeque
    /\ IdleAdapter
    /\ IdlePointer
    /\ IdleCall
    /\ IdlePair
    /\ IdleArray
    /\ IdleLifetime
    /\ IdleIterator

\* the EEPROM holds any bytes; the build placed a null-terminated string of
\* any length that fits at the start of program memory
InitRead ==
    /\ eeprom \in [cells : [EepromAddresses -> Bytes], wear : {[address \in EepromAddresses |-> 0]}]
    /\ \E length \in 0 .. (ProgmemSize - 1) :
         progmem = [a \in ProgmemAddresses |->
                        IF a < length THEN 1 + (a % (NumByteValues - 1)) ELSE 0]
    /\ placed = [type |-> "char", address |-> 0, value |-> progmem[0]]
    /\ eeprom_type = "char"
    /\ call = [op |-> "none", type |-> "char", address |-> 0, value |-> <<>>]
    /\ result = <<>>
    /\ tracked = <<>>
    /\ IdleDeque
    /\ IdleAdapter
    /\ IdlePointer
    /\ IdleCall
    /\ IdlePair
    /\ IdleArray
    /\ IdleLifetime
    /\ IdleIterator

\* the build places one object in program memory, the other cells hold `fill`
InitProgmem ==
    /\ eeprom = [cells |-> [address \in EepromAddresses |-> 0],
                 wear |-> [address \in EepromAddresses |-> 0]]
    /\ \E type \in ProgmemTypes :
         \E address \in ProgmemAddresses :
           \E value \in ValuesOf(type) :
             \E fill \in Bytes :
               /\ address + SizeOf(type) <= ProgmemSize
               /\ placed = [type |-> type, address |-> address, value |-> value]
               /\ progmem = [a \in ProgmemAddresses |->
                                IF a \in Range(address, type)
                                THEN ObjectBytes(type, value)[a - address + 1]
                                ELSE fill]
    /\ eeprom_type = "char"
    /\ call = [op |-> "none", type |-> "char", address |-> 0, value |-> <<>>]
    /\ result = <<>>
    /\ tracked = <<>>
    /\ IdleDeque
    /\ IdleAdapter
    /\ IdlePointer
    /\ IdleCall
    /\ IdlePair
    /\ IdleArray
    /\ IdleLifetime
    /\ IdleIterator

\* eeprom::writeEeprom(destination, source)
CallWriteEeprom(address, type, value) ==
    /\ address + SizeOf(type) <= EepromSize
    /\ CellWrites(eeprom, 0) < MaxWear
    /\ eeprom' = writeEeprom(eeprom, address, value, type)
    /\ Called("writeEeprom", type, address, <<value>>)
    /\ result' = <<>>
    /\ tracked' = Track(address, type, value)
    /\ UNCHANGED <<progmem, placed, eeprom_type, dequeVars, adapterVars, pointerVars, callVars, pairVars, arrayVars, lifetimeVars, iteratorVars>>

\* eeprom::overwriteEeprom(destination, source)
CallOverwriteEeprom(address, type, value) ==
    /\ address + SizeOf(type) <= EepromSize
    /\ CellWrites(eeprom, 0) < MaxWear
    /\ eeprom' = overwriteEeprom(eeprom, address, value, type)
    /\ Called("overwriteEeprom", type, address, <<value>>)
    /\ result' = <<>>
    /\ tracked' = Track(address, type, value)
    /\ UNCHANGED <<progmem, placed, eeprom_type, dequeVars, adapterVars, pointerVars, callVars, pairVars, arrayVars, lifetimeVars, iteratorVars>>

\* EepromReference<Type>(pointer) = value
AssignEepromReference(address, type, value) ==
    /\ address + SizeOf(type) <= EepromSize
    /\ CellWrites(eeprom, 0) < MaxWear
    /\ eeprom' = EepromReference_assign(eeprom, address, value, type)
    /\ Called("EepromReference_assign", type, address, <<value>>)
    /\ result' = <<>>
    /\ tracked' = Track(address, type, value)
    /\ UNCHANGED <<progmem, placed, eeprom_type, dequeVars, adapterVars, pointerVars, callVars, pairVars, arrayVars, lifetimeVars, iteratorVars>>

\* a call that reads EEPROM: `read` is the EEPROM after it and the value
ReadsEeprom(name, type, address, read) ==
    /\ eeprom' = read.eeprom
    /\ Called(name, type, address, <<>>)
    /\ result' = <<read.value>>
    /\ UNCHANGED <<progmem, placed, eeprom_type, tracked, dequeVars, adapterVars, pointerVars, callVars, pairVars, arrayVars, lifetimeVars, iteratorVars>>

\* a call that reads program memory, which no instruction of the library writes
ReadsProgmem(name, type, address, value) ==
    /\ Called(name, type, address, <<>>)
    /\ result' = <<value>>
    /\ UNCHANGED <<eeprom, progmem, placed, eeprom_type, tracked, dequeVars, adapterVars, pointerVars, callVars, pairVars, arrayVars, lifetimeVars, iteratorVars>>

\* a call that changes the pointer object it is called on, and no memory
Steps(name, pointer, stepped) ==
    /\ Called(name, "char", pointer, <<>>)
    /\ result' = <<stepped>>
    /\ UNCHANGED <<eeprom, progmem, placed, eeprom_type, tracked, dequeVars, adapterVars, pointerVars, callVars, pairVars, arrayVars, lifetimeVars, iteratorVars>>

\* eeprom::readEeprom(object)
CallReadEeprom(address, type) ==
    /\ address + SizeOf(type) <= EepromSize
    /\ ReadsEeprom("readEeprom", type, address, readEeprom(eeprom, address, type))

\* Type value = EepromReference<Type>(pointer)
ConvertEepromReference(address, type) ==
    /\ address + SizeOf(type) <= EepromSize
    /\ ReadsEeprom("EepromReference_value", type, address,
                   EepromReference_value(eeprom, address, type))

\* char value = *pointer, pointer an EepromPointer<char>
DereferenceEepromPointer(pointer) ==
    /\ pointer < EepromSize
    /\ ReadsEeprom("EepromPointer_dereference", "char", pointer,
                   EepromReference_value(eeprom, EepromPointer_dereference(pointer), "char"))

\* ++pointer, up to one past the last cell
IncrementEepromPointer(pointer) ==
    /\ pointer < EepromSize
    /\ Steps("EepromPointer_increment", pointer, EepromPointer_increment(pointer))

\* --pointer
DecrementEepromPointer(pointer) ==
    /\ pointer > 0
    /\ Steps("EepromPointer_decrement", pointer, EepromPointer_decrement(pointer))

\* char value = array[index], array an EepromArray<char, EepromSize> at address 0
SubscriptEepromArray(index) ==
    /\ index < EepromSize
    /\ ReadsEeprom("EepromArray_subscript", "char", index,
                   EepromReference_value(eeprom, EepromArray_subscript(0, index), "char"))

\* for(char value : array), array an EepromArray<char, EepromSize> at address 0
IterateEepromArray ==
    ReadsEeprom("EepromArray_iterate", "char", 0,
                Eeprom_iterate(eeprom, EepromArray_begin(0), EepromArray_end(0)))

\* progmem::readProgmem(object)
CallReadProgmem(address, type) ==
    /\ address + SizeOf(type) <= ProgmemSize
    /\ ReadsProgmem("readProgmem", type, address, readProgmem(progmem, address, type))

\* progmem::copyProgmem(destination, source)
CallCopyProgmem(address, type) ==
    /\ address + SizeOf(type) <= ProgmemSize
    /\ ReadsProgmem("copyProgmem", type, address, copyProgmem(progmem, address, type))

\* Type value = ProgmemReference<Type>(pointer)
ConvertProgmemReference(address, type) ==
    /\ address + SizeOf(type) <= ProgmemSize
    /\ ReadsProgmem("ProgmemReference_value", type, address,
                    ProgmemReference_value(progmem, address, type))

\* char value = *pointer, pointer a ProgmemPointer<char>
DereferenceProgmemPointer(pointer) ==
    /\ pointer < ProgmemSize
    /\ ReadsProgmem("ProgmemPointer_dereference", "char", pointer,
                    ProgmemReference_value(progmem, ProgmemPointer_dereference(pointer),
                                           "char"))

\* ++pointer, up to one past the last cell
IncrementProgmemPointer(pointer) ==
    /\ pointer < ProgmemSize
    /\ Steps("ProgmemPointer_increment", pointer, ProgmemPointer_increment(pointer))

\* --pointer
DecrementProgmemPointer(pointer) ==
    /\ pointer > 0
    /\ Steps("ProgmemPointer_decrement", pointer, ProgmemPointer_decrement(pointer))

\* char value = array[index], array a ProgmemArray<char, ProgmemSize> at address 0
SubscriptProgmemArray(index) ==
    /\ index < ProgmemSize
    /\ ReadsProgmem("ProgmemArray_subscript", "char", index,
                    ProgmemReference_value(progmem, ProgmemArray_subscript(0, index), "char"))

\* for(char value : array), array a ProgmemArray<char, ProgmemSize> at address 0
IterateProgmemArray ==
    ReadsProgmem("ProgmemArray_iterate", "char", 0,
                 Progmem_iterate(progmem, ProgmemArray_begin(0), ProgmemArray_end(0)))

\* for(char value : string), string a ProgmemString(address, size)
IterateProgmemString(address, size) ==
    /\ address + size <= ProgmemSize
    /\ ReadsProgmem("ProgmemString_iterate", "char", address,
                    Progmem_iterate(progmem, ProgmemString_begin(address),
                                    ProgmemString_end(address, size)))

\* ProgmemNullString(address).size(), on a string that has its terminator
SizeProgmemNullString(address) ==
    /\ \E terminator \in ProgmemAddresses : terminator >= address /\ progmem[terminator] = 0
    /\ ReadsProgmem("ProgmemNullString_size", "char", address,
                    ProgmemNullString_size(progmem, address))

NextEeprom ==
    \/ \E address \in EepromAddresses : \E value \in ValuesOf(eeprom_type) :
         CallWriteEeprom(address, eeprom_type, value)
    \/ \E address \in EepromAddresses : \E value \in ValuesOf(eeprom_type) :
         CallOverwriteEeprom(address, eeprom_type, value)
    \/ \E address \in EepromAddresses : \E value \in ValuesOf(eeprom_type) :
         AssignEepromReference(address, eeprom_type, value)
    \/ \E address \in EepromAddresses : CallReadEeprom(address, eeprom_type)

SpecEeprom == InitEeprom /\ [][NextEeprom]_vars

NextRead ==
    \/ \E type \in EepromTypes : \E address \in EepromAddresses : CallReadEeprom(address, type)
    \/ \E type \in EepromTypes : \E address \in EepromAddresses :
         ConvertEepromReference(address, type)
    \/ \E pointer \in 0 .. EepromSize : DereferenceEepromPointer(pointer)
    \/ \E pointer \in 0 .. EepromSize : IncrementEepromPointer(pointer)
    \/ \E pointer \in 0 .. EepromSize : DecrementEepromPointer(pointer)
    \/ \E index \in EepromAddresses : SubscriptEepromArray(index)
    \/ IterateEepromArray
    \/ \E type \in ProgmemTypes : \E address \in ProgmemAddresses : CallReadProgmem(address, type)
    \/ \E type \in ProgmemTypes : \E address \in ProgmemAddresses : CallCopyProgmem(address, type)
    \/ \E type \in ProgmemTypes : \E address \in ProgmemAddresses :
         ConvertProgmemReference(address, type)
    \/ \E pointer \in 0 .. ProgmemSize : DereferenceProgmemPointer(pointer)
    \/ \E pointer \in 0 .. ProgmemSize : IncrementProgmemPointer(pointer)
    \/ \E pointer \in 0 .. ProgmemSize : DecrementProgmemPointer(pointer)
    \/ \E index \in ProgmemAddresses : SubscriptProgmemArray(index)
    \/ IterateProgmemArray
    \/ \E address \in ProgmemAddresses : \E size \in 0 .. ProgmemSize :
         IterateProgmemString(address, size)
    \/ \E address \in ProgmemAddresses : SizeProgmemNullString(address)

SpecRead == InitRead /\ [][NextRead]_vars

NextProgmem ==
    \/ \E type \in ProgmemTypes : \E address \in ProgmemAddresses : CallReadProgmem(address, type)
    \/ \E type \in ProgmemTypes : \E address \in ProgmemAddresses : CallCopyProgmem(address, type)
    \/ \E type \in ProgmemTypes : \E address \in ProgmemAddresses :
         ConvertProgmemReference(address, type)

SpecProgmem == InitProgmem /\ [][NextProgmem]_vars

(***************************************************************************)
(* Properties of the memories.                                             *)
(***************************************************************************)

\* the last call read, as `type`, the object at `address`
ReadBack(names, address, type) ==
    /\ call.op \in names
    /\ call.address = address
    /\ call.type = type

\* C7: after writeEeprom(a, v) or overwriteEeprom(a, v), readEeprom(a) returns
\* v, whatever the cells held before and whatever was written to other
\* locations in between, as long as no other write touched the object at a.
C7_EepromRoundTrip ==
    (tracked # <<>> /\ ReadBack({"readEeprom"}, tracked[1].address, tracked[1].type)) =>
        result = <<tracked[1].value>>

\* an object is read back after a write to it changed its cell and after
\* another location was written in between
C7_Witness ==
    /\ tracked # <<>>
    /\ ReadBack({"readEeprom"}, tracked[1].address, tracked[1].type)
    /\ tracked[1].interleaved
    /\ eeprom.wear[tracked[1].address] >= 1
    /\ result = <<tracked[1].value>>

\* the writes of the cell at `a` a call adds when it stores `bytes` at `address`
\* in the EEPROM `e` and skips the bytes that are already there, or when it
\* does not skip any
WritesAdded(e, a, address, bytes, skipping) ==
    IF a \in address .. (address + Len(bytes) - 1)
          /\ (skipping => e.cells[a] # bytes[a - address + 1])
    THEN 1
    ELSE 0

ReadCalls ==
    {"readEeprom", "EepromReference_value", "EepromPointer_dereference",
     "EepromPointer_increment", "EepromPointer_decrement", "EepromArray_subscript",
     "EepromArray_iterate", "readProgmem", "copyProgmem", "ProgmemReference_value",
     "ProgmemPointer_dereference", "ProgmemPointer_increment", "ProgmemPointer_decrement",
     "ProgmemArray_subscript", "ProgmemArray_iterate", "ProgmemString_iterate",
     "ProgmemNullString_size"}

\* C9: a step that is a read leaves every cell of program memory and of
\* EEPROM, and the number of writes of every EEPROM cell, as they were.
C9_ReadsDoNotWrite ==
    [][call'.op \in ReadCalls =>
           /\ eeprom'.cells = eeprom.cells
           /\ eeprom'.wear = eeprom.wear
           /\ progmem' = progmem
      ]_vars

\* a range-for over an EepromArray has read cells that hold different bytes
C9_Witness ==
    /\ call.op = "EepromArray_iterate"
    /\ Len(result[1]) = EepromSize
    /\ \E i, j \in 1 .. Len(result[1]) : result[1][i] # result[1][j]

\* C10: readProgmem, copyProgmem and the conversion of a ProgmemReference yield
\* the value the object was placed in program memory with, whichever of the
\* byte, pointer, word and block primitives its type selects.
C10_ProgmemRoundTrip ==
    ReadBack({"readProgmem", "copyProgmem", "ProgmemReference_value"},
             placed.address, placed.type) =>
        result = <<placed.value>>

\* a two-byte value whose bytes differ has been copied out as a block
C10_Witness ==
    /\ ReadBack({"copyProgmem"}, placed.address, placed.type)
    /\ placed.type = "uint16_t"
    /\ placed.value >= 256
    /\ placed.value % 256 # placed.value \div 256
    /\ result = <<placed.value>>

(***************************************************************************)
(* ProgmemPointer.h, EepromPointer.h: stepping, comparing, adding and      *)
(* subtracting pointers.  A pointer is the address in its member           *)
(* `pointer`, counted in elements; ptrdiff_t is 16 bits wide on AVR.       *)
(***************************************************************************)

\* a difference of addresses as a ptrdiff_t
ToPtrdiff(x) == IF Wrap(x) >= SizeModulus \div 2 THEN Wrap(x) - SizeModulus ELSE Wrap(x)

\* pointer++: the pointer after the call and the copy it returns
ProgmemPointer_post_increment(p) ==
    [pointer |-> ProgmemPointer_increment(p), result |-> p]

\* pointer--
ProgmemPointer_post_decrement(p) ==
    [pointer |-> ProgmemPointer_decrement(p), result |-> p]

\* operator ==(ProgmemPointer, ProgmemPointer)
ProgmemPointer_equal(left, right) == left = right

\* operator !=(ProgmemPointer, ProgmemPointer)
ProgmemPointer_not_equal(left, right) == left # right

\* operator -(ProgmemPointer, ProgmemPointer)
ProgmemPointer_minus(left, right) == ToPtrdiff(left - right)

\* operator +(ProgmemPointer, ptrdiff_t)
ProgmemPointer_plus(p, offset) == Wrap(p + offset)

\* pointer++ of an EepromPointer
EepromPointer_post_increment(p) ==
    [pointer |-> EepromPointer_increment(p), result |-> p]

\* pointer--
EepromPointer_post_decrement(p) ==
    [pointer |-> EepromPointer_decrement(p), result |-> p]

\* operator ==(EepromPointer, EepromPointer)
EepromPointer_equal(left, right) == left = right

\* operator !=(EepromPointer, EepromPointer)
EepromPointer_not_equal(left, right) == left # right

\* an operator - that subtracts the wrong way round
EepromPointer_minus_reversed(left, right) == ToPtrdiff(right - left)

\* operator -(EepromPointer, EepromPointer)
EepromPointer_minus(left, right) == ToPtrdiff(left - right)

\* operator +(EepromPointer, ptrdiff_t)
EepromPointer_plus(p, offset) == Wrap(p + offset)

(***************************************************************************)
(* Calls on a pointer into an array of ProgmemSize or EepromSize chars.    *)
(* The array lies at one of the addresses in ArrayAddresses; the pointer   *)
(* stays between its first element and one past its last.                  *)
(***************************************************************************)

\* where the array may lie: the start of the memory, and the address test05 uses
ArrayAddresses == {0, 900}

PointerClasses == {"ProgmemPointer", "EepromPointer"}

\* the number of elements of the array the pointer points into
ArraySize(class) == IF class = "ProgmemPointer" THEN ProgmemSize ELSE EepromSize

InitPointer ==
    /\ \E class \in PointerClasses : \E array \in ArrayAddresses :
         \E index \in 0 .. ArraySize(class) :
           pointer_object = [class |-> class, array |-> array, pointer |-> array + index]
    /\ pointer_calls = <<>>
    /\ IdleDeque
    /\ IdleAdapter
    /\ IdleMemory
    /\ IdleCall
    /\ IdlePair
    /\ IdleArray
    /\ IdleLifetime
    /\ IdleIterator

\* the call is recorded after the one before it
Stepped(name, offset, returned) ==
    LET record == [op |-> name, from |-> pointer_object.pointer, offset |-> offset,
                   result |-> returned]
    IN  pointer_calls' = IF pointer_calls = <<>> THEN <<record>> ELSE <<pointer_calls[Len(pointer_calls)], record>>

\* ++pointer
PreIncrement ==
    /\ pointer_object.class \in PointerClasses
    /\ pointer_object.pointer < pointer_object.array + ArraySize(pointer_object.class)
    /\ LET next == IF pointer_object.class = "ProgmemPointer"
                   THEN ProgmemPointer_increment(pointer_object.pointer)
                   ELSE EepromPointer_increment(pointer_object.pointer)
       IN  /\ pointer_object' = [pointer_object EXCEPT !.pointer = next]
           /\ Stepped("pre_increment", 0, next)
    /\ UNCHANGED <<dequeVars, adapterVars, memoryVars, callVars, pairVars, arrayVars, lifetimeVars, iteratorVars>>

\* pointer++
PostIncrement ==
    /\ pointer_object.class \in PointerClasses
    /\ pointer_object.pointer < pointer_object.array + ArraySize(pointer_object.class)
    /\ LET after == IF pointer_object.class = "ProgmemPointer"
                    THEN ProgmemPointer_post_increment(pointer_object.pointer)
                    ELSE EepromPointer_post_increment(pointer_object.pointer)
       IN  /\ pointer_object' = [pointer_object EXCEPT !.pointer = after.pointer]
           /\ Stepped("post_increment", 0, after.result)
    /\ UNCHANGED <<dequeVars, adapterVars, memoryVars, callVars, pairVars, arrayVars, lifetimeVars, iteratorVars>>

\* --pointer
PreDecrement ==
    /\ pointer_object.class \in PointerClasses
    /\ pointer_object.pointer > pointer_object.array
    /\ LET next == IF pointer_object.class = "ProgmemPointer"
                   THEN ProgmemPointer_decrement(pointer_object.pointer)
                   ELSE EepromPointer_decrement(pointer_object.pointer)
       IN  /\ pointer_object' = [pointer_object EXCEPT !.pointer = next]
           /\ Stepped("pre_decrement", 0, next)
    /\ UNCHANGED <<dequeVars, adapterVars, memoryVars, callVars, pairVars, arrayVars, lifetimeVars, iteratorVars>>

\* pointer--
PostDecrement ==
    /\ pointer_object.class \in PointerClasses
    /\ pointer_object.pointer > pointer_object.array
    /\ LET after == IF pointer_object.class = "ProgmemPointer"
                    THEN ProgmemPointer_post_decrement(pointer_object.pointer)
                    ELSE EepromPointer_post_decrement(pointer_object.pointer)
       IN  /\ pointer_object' = [pointer_object EXCEPT !.pointer = after.pointer]
           /\ Stepped("post_decrement", 0, after.result)
    /\ UNCHANGED <<dequeVars, adapterVars, memoryVars, callVars, pairVars, arrayVars, lifetimeVars, iteratorVars>>

\* pointer + offset, which stays within the array or one past its end
Add(offset) ==
    /\ pointer_object.class \in PointerClasses
    /\ pointer_object.pointer + offset \in pointer_object.array .. (pointer_object.array + ArraySize(pointer_object.class))
    /\ Stepped("plus", offset,
               IF pointer_object.class = "ProgmemPointer"
               THEN ProgmemPointer_plus(pointer_object.pointer, offset)
               ELSE EepromPointer_plus(pointer_object.pointer, offset))
    /\ UNCHANGED <<pointer_object, dequeVars, adapterVars, memoryVars, callVars, pairVars, arrayVars, lifetimeVars, iteratorVars>>

\* returned - pointer, where `returned` is the pointer the last call returned
Subtract ==
    /\ pointer_object.class \in PointerClasses
    /\ pointer_calls # <<>>
    /\ pointer_calls[Len(pointer_calls)].op # "minus"
    /\ Stepped("minus", pointer_calls[Len(pointer_calls)].offset,
               IF pointer_object.class = "ProgmemPointer"
               THEN ProgmemPointer_minus(pointer_calls[Len(pointer_calls)].result, pointer_object.pointer)
               ELSE EepromPointer_minus(pointer_calls[Len(pointer_calls)].result, pointer_object.pointer))
    /\ UNCHANGED <<pointer_object, dequeVars, adapterVars, memoryVars, callVars, pairVars, arrayVars, lifetimeVars, iteratorVars>>

NextPointer ==
    \/ PreIncrement
    \/ PostIncrement
    \/ PreDecrement
    \/ PostDecrement
    \/ \E offset \in (0 - EepromSize - ProgmemSize) .. (EepromSize + ProgmemSize) : Add(offset)
    \/ Subtract

SpecPointer == InitPointer /\ [][NextPointer]_vars

\* the pointers compare equal, and != says the opposite of ==
SamePointer(left, right) ==
    IF pointer_object.class = "ProgmemPointer"
    THEN ProgmemPointer_equal(left, right) /\ ~ProgmemPointer_not_equal(left, right)
    ELSE EepromPointer_equal(left, right) /\ ~EepromPointer_not_equal(left, right)

Iterators == 0 .. Capacity

\* an empty() that never reports an empty deque
Container_empty_never(type, c) == FALSE

Container_empty(type, c) ==
    IF type = "Deque" THEN Deque_empty(c) ELSE CircularDeque_empty(c)

Container_get_first_index(type, c) ==
    IF type = "Deque" THEN Deque_get_first_index(c) ELSE get_first_index(c)

Container_get_end_index(type, c) ==
    IF type = "Deque" THEN Deque_get_end_index(c) ELSE get_end_index(c)

\* the iterator `position` steps after begin()
Container_iterator(type, c, position) ==
    IF type = "Deque" THEN Deque_begin(c) + position
    ELSE Wrap(CircularDeque_begin(c) + position)

Container_end(type, c) ==
    IF type = "Deque" THEN Deque_end(c) ELSE CircularDeque_end(c)

Container_erase(type, c, element_iterator) ==
    IF type = "Deque" THEN Deque_erase(c, element_iterator)
    ELSE CircularDeque_erase(c, element_iterator)

\* the deque is constructed empty, its array default-initialised; the build
\* is one of the two
InitCall ==
    /\ callee_type \in {"Deque", "CircularDeque"}
    /\ callee \in [elements : [Slots -> Values], element_count : {0}, first_index : {0}]
    /\ container_safety \in BOOLEAN
    /\ member = "construct"
    /\ precondition = TRUE
    /\ argument = <<>>
    /\ return_value = <<>>
    /\ IdleDeque
    /\ IdleAdapter
    /\ IdleMemory
    /\ IdlePointer
    /\ IdlePair
    /\ IdleArray
    /\ IdleLifetime
    /\ IdleIterator

\* the record of a call: its name, whether it met its precondition, the
\* iterator it was given and what it returned
Calls(name, met, given, value) ==
    /\ container_safety \/ met
    /\ member' = name
    /\ precondition' = met
    /\ argument' = given
    /\ return_value' = value
    /\ UNCHANGED <<container_safety, callee_type, dequeVars, adapterVars, memoryVars,
                   pointerVars, pairVars, arrayVars, lifetimeVars, iteratorVars>>

\* #if defined(CONTAINER_SAFETY) if(size() >= max_size()) return; #endif
PushBack(value) ==
    LET full == Container_size(callee_type, callee) >= Container_max_size(callee_type, callee)
    IN  /\ Calls("push_back", ~full, <<>>, <<>>)
        /\ callee' = IF container_safety /\ full THEN callee
                     ELSE Container_push_back(callee_type, callee, value)

\* the same test, then placement new into the slot push_back assigns to; the
\* early `return;` returns no defined reference
EmplaceBack(value) ==
    LET full == Container_size(callee_type, callee) >= Container_max_size(callee_type, callee)
    IN  /\ IF full
           THEN \E slot \in Slots : Calls("emplace_back", FALSE, <<>>, <<slot>>)
           ELSE Calls("emplace_back", TRUE, <<>>,
                      <<Container_get_end_index(callee_type, callee)>>)
        /\ callee' = IF container_safety /\ full THEN callee
                     ELSE Container_push_back(callee_type, callee, value)

PushFront(value) ==
    LET full == Container_size(callee_type, callee) >= Container_max_size(callee_type, callee)
    IN  /\ Calls("push_front", ~full, <<>>, <<>>)
        /\ callee' = IF container_safety /\ full THEN callee
                     ELSE Container_push_front(callee_type, callee, value)

EmplaceFront(value) ==
    LET full == Container_size(callee_type, callee) >= Container_max_size(callee_type, callee)
    IN  /\ IF full
           THEN \E slot \in Slots : Calls("emplace_front", FALSE, <<>>, <<slot>>)
           ELSE Calls("emplace_front", TRUE, <<>>,
                      <<IF callee_type = "Deque" THEN 0
                        ELSE get_previous_index(callee.first_index)>>)
        /\ callee' = IF container_safety /\ full THEN callee
                     ELSE Container_push_front(callee_type, callee, value)

\* #if defined(CONTAINER_SAFETY) if(empty()) return; #endif
PopBack ==
    /\ Calls("pop_back", Container_size(callee_type, callee) > 0, <<>>, <<>>)
    /\ callee' = IF container_safety /\ Container_empty(callee_type, callee) THEN callee
                 ELSE Container_pop_back(callee_type, callee)

PopFront ==
    /\ Calls("pop_front", Container_size(callee_type, callee) > 0, <<>>, <<>>)
    /\ \E beyond \in Values :
           callee' = IF container_safety /\ Container_empty(callee_type, callee) THEN callee
                     ELSE Container_pop_front(callee_type, callee, beyond)

\* erase(begin() + position), position up to end().  No path of erase returns
\* a value: the early exits are `return;`, the other path runs off the end of
\* the function, so the caller receives an indeterminate iterator.
Erase(position) ==
    LET element_iterator == Container_iterator(callee_type, callee, position)
    IN  /\ position <= Container_size(callee_type, callee)
        /\ \E iterator \in Iterators :
               Calls("erase", position < Container_size(callee_type, callee),
                     <<position>>, <<iterator>>)
        /\ callee' = IF container_safety
                        /\ (Container_empty(callee_type, callee)
                            \/ element_iterator = Container_end(callee_type, callee))
                     THEN callee
                     ELSE Container_erase(callee_type, callee, element_iterator)

\* front() and back() hold no #if defined(CONTAINER_SAFETY): in both builds
\* they return elements[get_first_index()] and elements[get_last_index()]
Front ==
    /\ Calls("front", ~Container_empty(callee_type, callee), <<>>,
             <<Container_front(callee_type, callee)>>)
    /\ UNCHANGED callee

Back ==
    /\ Calls("back", ~Container_empty(callee_type, callee), <<>>,
             <<Container_back(callee_type, callee)>>)
    /\ UNCHANGED callee

NextCall ==
    \/ \E value \in Values : PushBack(value)
    \/ \E value \in Values : EmplaceBack(value)
    \/ \E value \in Values : PushFront(value)
    \/ \E value \in Values : EmplaceFront(value)
    \/ PopBack
    \/ PopFront
    \/ \E position \in Iterators : Erase(position)
    \/ Front
    \/ Back

SpecCall == InitCall /\ [][NextCall]_vars

\* the member functions that change a deque and state a precondition
Mutators ==
    {"push_back", "push_front", "emplace_back", "emplace_front",
     "pop_back", "pop_front", "erase"}

\* C12: with CONTAINER_SAFETY defined, a call of push_back, push_front,
\* emplace_back or emplace_front on a full deque, of pop_back or pop_front on
\* an empty one, and of erase on an empty deque or with end() leaves size(),
\* the head index and the stored elements of the deque as they were.
C12_ViolationIsNoOp ==
    [][(container_safety /\ member' \in Mutators /\ ~precondition') =>
           /\ Container_size(callee_type, callee') = Container_size(callee_type, callee)
           /\ Container_get_first_index(callee_type, callee')
                  = Container_get_first_index(callee_type, callee)
           /\ callee'.elements = callee.elements
           /\ Container_contents(callee_type, callee')
                  = Container_contents(callee_type, callee)]_vars

\* push_front was called on a full circular deque whose head is not slot 0
C12_Witness ==
    /\ container_safety
    /\ callee_type = "CircularDeque"
    /\ member = "push_front"
    /\ ~precondition
    /\ CircularDeque_size(callee) = CircularDeque_max_size(callee)
    /\ get_first_index(callee) # 0

\* C13: with CONTAINER_SAFETY defined, front() and back() on an empty deque
\* are checked: they return without reading a slot of `elements`.
C13_FrontBackChecked ==
    (container_safety /\ member \in {"front", "back"} /\ ~precondition) =>
        return_value = <<>>

\* C15: erase(it) with a dereferenceable iterator returns the iterator to the
\* element that followed the erased one, or end() if the erased one was last:
\* after the call that is the iterator at the position `it` had.
C15_EraseReturnsNext ==
    (member = "erase" /\ precondition) =>
        return_value = <<Container_iterator(callee_type, callee, argument[1])>>

(***************************************************************************)
(* Two objects of one type and swap: two deques, or two adapters over      *)
(* them.  List::swap names a member `elements` that List does not have and *)
(* does not compile; List is left out.                                     *)
(***************************************************************************)

\* utils/swap.h: object = move(left); left = move(right); right = move(object);
utils_swap(left, right) == <<right, left>>

\* swap(this->elements, other.elements): the arrays alone change hands
Deque_swap(d, other) ==
    LET swapped == utils_swap(d.elements, other.elements)
    IN  <<[d EXCEPT !.elements = swapped[1]], [other EXCEPT !.elements = swapped[2]]>>

CircularDeque_swap(c, other) ==
    LET swapped == utils_swap(c.elements, other.elements)
    IN  <<[c EXCEPT !.elements = swapped[1]], [other EXCEPT !.elements = swapped[2]]>>

\* containers::swap(left, right) is left.swap(right)
containers_swap(type, left, right) ==
    IF type = "Deque" THEN Deque_swap(left, right) ELSE CircularDeque_swap(left, right)

\* swap(this->container, other.container) after `using utils::swap`: argument
\* dependent lookup finds containers::swap for the deque, the more
\* specialised template, so the adapters swap what the deques swap
Stack_swap(type, c, other) == containers_swap(type, c, other)

Queue_swap(type, c, other) == containers_swap(type, c, other)

InitPair ==
    /\ pair_adapter \in {"none", "Stack", "Queue"}
    /\ pair_type \in {"Deque", "CircularDeque"}
    /\ \E value \in Values, other \in Values :
           pair = <<[elements |-> [slot \in Slots |-> value], element_count |-> 0,
                     first_index |-> 0],
                    [elements |-> [slot \in Slots |-> other], element_count |-> 0,
                     first_index |-> 0]>>
    /\ pair_calls = 0
    /\ pair_op = "construct"
    /\ IdleDeque
    /\ IdleAdapter
    /\ IdleMemory
    /\ IdlePointer
    /\ IdleCall
    /\ IdleArray
    /\ IdleLifetime
    /\ IdleIterator

\* a push or pop on one of the two objects
PairCalls(name, which, object) ==
    /\ pair_calls < MaxPairCalls
    /\ pair_calls' = pair_calls + 1
    /\ pair' = [pair EXCEPT ![which] = object]
    /\ pair_op' = name
    /\ UNCHANGED <<pair_adapter, pair_type, dequeVars, adapterVars, memoryVars,
                   pointerVars, callVars, arrayVars, lifetimeVars, iteratorVars>>

\* push_back of a deque, push of a Stack or a Queue
PairPushBack(which, value) ==
    /\ Container_size(pair_type, pair[which]) < Container_max_size(pair_type, pair[which])
    /\ PairCalls("push_back", which, Container_push_back(pair_type, pair[which], value))

PairPushFront(which, value) ==
    /\ pair_adapter = "none"
    /\ Container_size(pair_type, pair[which]) < Container_max_size(pair_type, pair[which])
    /\ PairCalls("push_front", which, Container_push_front(pair_type, pair[which], value))

\* pop_back of a deque, pop of a Stack
PairPopBack(which) ==
    /\ pair_adapter \in {"none", "Stack"}
    /\ Container_size(pair_type, pair[which]) > 0
    /\ PairCalls("pop_back", which, Container_pop_back(pair_type, pair[which]))

\* pop_front of a deque, pop of a Queue
PairPopFront(which) ==
    /\ pair_adapter \in {"none", "Queue"}
    /\ Container_size(pair_type, pair[which]) > 0
    /\ \E beyond \in Values :
           PairCalls("pop_front", which,
                     Container_pop_front(pair_type, pair[which], beyond))

\* first.swap(second)
Swap ==
    /\ pair' = IF pair_adapter = "Stack" THEN Stack_swap(pair_type, pair[1], pair[2])
               ELSE IF pair_adapter = "Queue" THEN Queue_swap(pair_type, pair[1], pair[2])
               ELSE containers_swap(pair_type, pair[1], pair[2])
    /\ pair_op' = "swap"
    /\ UNCHANGED <<pair_adapter, pair_type, pair_calls, dequeVars, adapterVars,
                   memoryVars, pointerVars, callVars, arrayVars, lifetimeVars, iteratorVars>>

NextPair ==
    \/ \E which \in {1, 2}, value \in Values : PairPushBack(which, value)
    \/ \E which \in {1, 2}, value \in Values : PairPushFront(which, value)
    \/ \E which \in {1, 2} : PairPopBack(which)
    \/ \E which \in {1, 2} : PairPopFront(which)
    \/ Swap

SpecPair == InitPair /\ [][NextPair]_vars

\* C14: after a.swap(b) on two Deques, two CircularDeques or two adapters,
\* a's size() and front-to-back elements are b's before the call and b's are
\* a's before the call.
C14_SwapExchangesContents ==
    [][pair_op' = "swap" =>
           /\ Container_size(pair_type, pair'[1]) = Container_size(pair_type, pair[2])
           /\ Container_size(pair_type, pair'[2]) = Container_size(pair_type, pair[1])
           /\ Container_contents(pair_type, pair'[1]) = Container_contents(pair_type, pair[2])
           /\ Container_contents(pair_type, pair'[2])
                  = Container_contents(pair_type, pair[1])]_vars

(***************************************************************************)
(* utils/Iterator/ReverseIterator.h, utils/Iterator/IteratorPair.h over    *)
(* the iterators of a Deque, as in tests/test07.h                          *)
(***************************************************************************)

\* the longest loop followed before a range-for is given up as not ending
MaxSteps == Capacity + 2

\* a ReverseIterator holds the iterator it was made of
makeReverseIterator(iterator) == [iterator |-> iterator]

ReverseIterator_base(reverse) == reverse.iterator

\* a reverse iterator that dereferences its own iterator
ReverseIterator_dereference_base(reverse) == reverse.iterator

\* temporary = iterator; --temporary; return *temporary;  the slot referred to
ReverseIterator_dereference(reverse) == reverse.iterator - 1

\* --this->iterator;
ReverseIterator_increment(reverse) == [reverse EXCEPT !.iterator = reverse.iterator - 1]

ReverseIterator_not_equal(left, right) ==
    ReverseIterator_base(left) # ReverseIterator_base(right)

makeIteratorPair(begin_iterator, end_iterator) ==
    [begin_iterator |-> begin_iterator, end_iterator |-> end_iterator]

IteratorPair_begin(iterators) == iterators.begin_iterator

IteratorPair_end(iterators) == iterators.end_iterator

\* for(char c : pair): the slots read, and whether the loop ended
RECURSIVE ReverseIterator_iterate(_, _, _)
ReverseIterator_iterate(reverse, end_iterator, steps) ==
    IF ~ReverseIterator_not_equal(reverse, end_iterator)
    THEN [slots |-> <<>>, ended |-> TRUE]
    ELSE IF steps = MaxSteps
    THEN [slots |-> <<>>, ended |-> FALSE]
    ELSE LET rest == ReverseIterator_iterate(ReverseIterator_increment(reverse),
                                             end_iterator, steps + 1)
         IN  [slots |-> <<ReverseIterator_dereference(reverse)>> \o rest.slots,
              ended |-> rest.ended]

\* r = makeReverseIterator(deque.end()); e = makeReverseIterator(deque.begin());
\* pair = makeIteratorPair(r, e); for(char c : pair)
test07(d) ==
    LET iterators == makeIteratorPair(makeReverseIterator(Deque_end(d)),
                                      makeReverseIterator(Deque_begin(d)))
    IN  ReverseIterator_iterate(IteratorPair_begin(iterators),
                                IteratorPair_end(iterators), 0)

\* the slots a range-for from begin() to end() reads
ForwardSlots(d) == [i \in 1 .. Deque_size(d) |-> Deque_begin(d) + (i - 1)]

\* C16: on a Deque in any reachable state, the loop from
\* makeReverseIterator(end()) to makeReverseIterator(begin()) ends after size()
\* steps and reads the slots forward iteration reads, each once, in reverse
\* order, so the elements come out in reverse.
C16_ReverseIteration ==
    LET pass == test07(deque)
    IN  /\ pass.ended
        /\ Len(pass.slots) = Deque_size(deque)
        /\ pass.slots = Reverse(ForwardSlots(deque))
        /\ [i \in 1 .. Len(pass.slots) |-> deque.elements[pass.slots[i]]]
               = Reverse(Deque_contents(deque))

\* a full deque whose first and last elements differ, after a push_front
C16_Witness ==
    /\ op = "push_front"
    /\ Deque_size(deque) = Deque_max_size(deque)
    /\ deque.elements[Deque_front(deque)] # deque.elements[Deque_back(deque)]
    /\ test07(deque).slots = Reverse(ForwardSlots(deque))

(***************************************************************************)
(* utils/Array.h, utils/eeprom/EepromArray.h, utils/progmem/ProgmemArray.h *)
(* One array object of any capacity up to Capacity.  Array<Type, 0> is the *)
(* specialisation; the other two classes have none.  An Array's elements   *)
(* are slots 0 .. capacity - 1 of `elements`.                              *)
(***************************************************************************)

\* Array: return false;  Array<Type, 0>: return true;
Array_empty(capacity) == IF capacity = 0 THEN TRUE ELSE FALSE

\* Array: return capacity;  Array<Type, 0>: return 0;
Array_size(capacity) == IF capacity = 0 THEN 0 ELSE capacity

Array_max_size(capacity) == IF capacity = 0 THEN 0 ELSE capacity

\* for(index = begin_index; index < end_index; ++index) elements[index] = value;
RECURSIVE Array_fill_loop(_, _, _, _)
Array_fill_loop(elements, index, end_index, value) ==
    IF index < end_index
    THEN Array_fill_loop([elements EXCEPT ![index] = value], Wrap(index + 1), end_index,
                         value)
    ELSE elements

\* a fill whose loop starts at the second element
Array_fill_from_second(capacity, elements, value) ==
    IF capacity = 0 THEN elements
    ELSE Array_fill_loop(elements, 1, capacity, value)

\* Array<Type, 0>::fill does nothing
Array_fill(capacity, elements, value) ==
    IF capacity = 0 THEN elements
    ELSE Array_fill_loop(elements, 0, capacity, value)

\* return (capacity > 0);
EepromArray_empty(capacity) == capacity > 0

EepromArray_size(capacity) == capacity

EepromArray_max_size(capacity) == capacity

\* return (capacity > 0);
ProgmemArray_empty(capacity) == capacity > 0

ProgmemArray_size(capacity) == capacity

ProgmemArray_max_size(capacity) == capacity

\* an Array is default-initialised: its elements are indeterminate
InitArray ==
    /\ array_class \in {"Array", "EepromArray", "ProgmemArray"}
    /\ array_capacity \in 0 .. Capacity
    /\ IF array_class = "Array"
       THEN array_elements \in [0 .. (array_capacity - 1) -> Values]
       ELSE array_elements = <<>>
    /\ array_call = [op |-> "construct", value |-> <<>>, before |-> <<>>, result |-> <<>>]
    /\ IdleDeque
    /\ IdleAdapter
    /\ IdleMemory
    /\ IdlePointer
    /\ IdleCall
    /\ IdlePair
    /\ IdleLifetime
    /\ IdleIterator

ArrayCalls(name, value, returned) ==
    /\ array_call' = [op |-> name, value |-> value, before |-> array_elements,
                      result |-> returned]
    /\ UNCHANGED <<array_class, array_capacity, dequeVars, adapterVars, memoryVars,
                   pointerVars, callVars, pairVars, lifetimeVars, iteratorVars>>

CallEmpty ==
    /\ ArrayCalls("empty", <<>>,
           <<IF array_class = "Array" THEN Array_empty(array_capacity)
             ELSE IF array_class = "EepromArray" THEN EepromArray_empty(array_capacity)
             ELSE ProgmemArray_empty(array_capacity)>>)
    /\ UNCHANGED array_elements

CallSize ==
    /\ ArrayCalls("size", <<>>,
           <<IF array_class = "Array" THEN Array_size(array_capacity)
             ELSE IF array_class = "EepromArray" THEN EepromArray_size(array_capacity)
             ELSE ProgmemArray_size(array_capacity)>>)
    /\ UNCHANGED array_elements

CallMaxSize ==
    /\ ArrayCalls("max_size", <<>>,
           <<IF array_class = "Array" THEN Array_max_size(array_capacity)
             ELSE IF array_class = "EepromArray" THEN EepromArray_max_size(array_capacity)
             ELSE ProgmemArray_max_size(array_capacity)>>)
    /\ UNCHANGED array_elements

\* array[index] = value
AssignElement(index, value) ==
    /\ array_class = "Array"
    /\ index < array_capacity
    /\ array_elements' = [array_elements EXCEPT ![index] = value]
    /\ ArrayCalls("assign", <<index, value>>, <<>>)

CallFill(value) ==
    /\ array_class = "Array"
    /\ array_elements' = Array_fill(array_capacity, array_elements, value)
    /\ ArrayCalls("fill", <<value>>, <<>>)

NextArray ==
    \/ CallEmpty
    \/ CallSize
    \/ CallMaxSize
    \/ \E index \in Slots, value \in Values : AssignElement(index, value)
    \/ \E value \in Values : CallFill(value)

SpecArray == InitArray /\ [][NextArray]_vars

\* C17: for Array, EepromArray and ProgmemArray of capacity N, size() and
\* max_size() return N and empty() returns true exactly when N = 0.
C17_SizeAndEmpty ==
    /\ array_call.op \in {"size", "max_size"} => array_call.result = <<array_capacity>>
    /\ array_call.op = "empty" => array_call.result = <<array_capacity = 0>>

\* C20: Array<T, N>::fill(v) returns and leaves every one of the N elements
\* equal to v, for every N >= 0 and every content before the call.
C20_FillSetsEveryElement ==
    array_call.op = "fill" =>
        /\ DOMAIN array_elements = 0 .. (array_capacity - 1)
        /\ \A index \in 0 .. (array_capacity - 1) :
               array_elements[index] = array_call.value[1]

\* fill was called on an array of Capacity elements none of which held v
C20_Witness ==
    /\ array_call.op = "fill"
    /\ array_capacity = Capacity
    /\ \A index \in 0 .. (array_capacity - 1) :
           /\ array_call.before[index] # array_call.value[1]
           /\ array_elements[index] = array_call.value[1]

(***************************************************************************)
(* utils/progmem/ProgmemString.h, utils/progmem/ProgmemNullString.h        *)
(* A ProgmemString is its members `string` and `string_size`; a            *)
(* ProgmemNullString is its member `string`.  The handles are the          *)
(* arguments of the calls; program memory holds a string literal.          *)
(***************************************************************************)

\* ProgmemString(const value_type (& array)[capacity])
ProgmemString_from_array(array, capacity) == [string |-> array, string_size |-> capacity]

\* explicit ProgmemString(const value_type * pointer, size_type size)
ProgmemString_from_pointer(pointer, size) == [string |-> pointer, string_size |-> size]

ProgmemString_size(s) == s.string_size

ProgmemString_equal(left, right) ==
    (left.string = right.string) /\ (ProgmemString_size(left) = ProgmemString_size(right))

ProgmemString_not_equal(left, right) ==
    (left.string # right.string) \/ (ProgmemString_size(left) # ProgmemString_size(right))

\* an operator== that compares the characters of the two strings
ProgmemNullString_equal_by_content(memory, left, right) ==
    Progmem_iterate(memory, left, left + ProgmemNullString_size(memory, left))
        = Progmem_iterate(memory, right, right + ProgmemNullString_size(memory, right))

\* size() runs only when the addresses are equal
ProgmemNullString_equal(memory, left, right) ==
    (left = right)
        /\ (ProgmemNullString_size(memory, left) = ProgmemNullString_size(memory, right))

\* size() runs only when the addresses are equal
ProgmemNullString_not_equal(memory, left, right) ==
    (left # right)
        \/ (ProgmemNullString_size(memory, left) # ProgmemNullString_size(memory, right))

\* the build placed two arrays of the same string literal one after the other
\* in program memory: static const char a[] = "..."; static const char b[] = "...";
\* `placed.value` is the capacity of each: the characters and the NUL
InitString ==
    /\ eeprom = [cells |-> [address \in EepromAddresses |-> 0],
                 wear |-> [address \in EepromAddresses |-> 0]]
    /\ \E capacity \in 1 .. MaxLiteral :
         /\ placed = [type |-> "char", address |-> 0, value |-> capacity]
         /\ progmem = [a \in 0 .. (2 * capacity - 1) |->
                          IF (a % capacity) < capacity - 1
                          THEN 1 + ((a % capacity) % (NumByteValues - 1))
                          ELSE 0]
    /\ eeprom_type = "char"
    /\ call = [op |-> "none", type |-> "char", address |-> 0, value |-> <<>>]
    /\ result = <<>>
    /\ tracked = <<>>
    /\ IdleDeque
    /\ IdleAdapter
    /\ IdlePointer
    /\ IdleCall
    /\ IdlePair
    /\ IdleArray
    /\ IdleLifetime
    /\ IdleIterator

\* the first address past the two arrays
LiteralsEnd == 2 * placed.value

\* a call on string handles: its name, the handles, and what it returned
StringCalls(name, address, handles, returned) ==
    /\ call' = [op |-> name, type |-> "char", address |-> address, value |-> handles]
    /\ result' = <<returned>>
    /\ UNCHANGED <<eeprom, progmem, placed, eeprom_type, tracked, dequeVars, adapterVars,
                   pointerVars, callVars, pairVars, arrayVars, lifetimeVars, iteratorVars>>

\* string = ProgmemString(array) for a char array of `capacity` characters at
\* `array`; string.size(); for(auto c : string)
test01(array, capacity) ==
    LET string == ProgmemString_from_array(array, capacity)
    IN  /\ array + capacity <= LiteralsEnd
        /\ StringCalls("test01", array, <<string>>,
               [size |-> ProgmemString_size(string),
                characters |-> Progmem_iterate(progmem, ProgmemString_begin(string.string),
                                   ProgmemString_end(string.string, string.string_size))])

\* left == right and left != right on two ProgmemStrings
CompareProgmemStrings(left, right) ==
    StringCalls("ProgmemString_equal", left.string, <<left, right>>,
        [equal |-> ProgmemString_equal(left, right),
         not_equal |-> ProgmemString_not_equal(left, right)])

\* left == right and left != right on two ProgmemNullStrings, each at a
\* character of one of the arrays
CompareProgmemNullStrings(left, right) ==
    StringCalls("ProgmemNullString_equal", left, <<left, right>>,
        [equal |-> ProgmemNullString_equal(progmem, left, right),
         not_equal |-> ProgmemNullString_not_equal(progmem, left, right)])

\* ProgmemNullString(string).size() on a handle at a character of one of the
\* arrays
CallProgmemNullStringSize(string) ==
    StringCalls("ProgmemNullString_size", string, <<string>>,
        [size |-> ProgmemNullString_size(progmem, string),
         reads |-> ProgmemNullString_size_reads(progmem, string)])

NextString ==
    \/ \E array \in 0 .. (LiteralsEnd - 1) : \E capacity \in 1 .. LiteralsEnd :
         test01(array, capacity)
    \/ \E pointer \in 0 .. LiteralsEnd, size \in 0 .. placed.value :
         \E other \in 0 .. LiteralsEnd, other_size \in 0 .. placed.value :
           CompareProgmemStrings(ProgmemString_from_pointer(pointer, size),
                                 ProgmemString_from_pointer(other, other_size))
    \/ \E left \in 0 .. (LiteralsEnd - 1), right \in 0 .. (LiteralsEnd - 1) :
         CompareProgmemNullStrings(left, right)
    \/ \E string \in 0 .. (LiteralsEnd - 1) : CallProgmemNullStringSize(string)

SpecString == InitString /\ [][NextString]_vars

\* C18: a ProgmemString made of a char array of capacity C has size() = C, and
\* iterating it reads exactly the C characters of the array in address order;
\* when the array is a string literal the last one read is its NUL.
C18_SizeCountsTerminator ==
    call.op = "test01" =>
        LET string == call.value[1]
            capacity == string.string_size
            literal == /\ progmem[string.string + capacity - 1] = 0
                       /\ \A a \in string.string .. (string.string + capacity - 2) :
                              progmem[a] # 0
        IN  /\ result[1].size = capacity
            /\ Len(result[1].characters) = capacity
            /\ \A i \in 1 .. capacity :
                   result[1].characters[i] = progmem[string.string + (i - 1)]
            /\ literal => result[1].characters[capacity] = 0

\* the string was made of the first array, a literal of the longest kind
C18_Witness ==
    /\ call.op = "test01"
    /\ placed.value = MaxLiteral
    /\ call.value[1] = [string |-> 0, string_size |-> MaxLiteral]
    /\ result[1].size = MaxLiteral
    /\ result[1].characters[1] # 0
    /\ result[1].characters[MaxLiteral] = 0

LiveSlots(c) == {CircularDeque_subscript(c, index) : index \in 0 .. (CircularDeque_size(c) - 1)}

\* first_index is a slot, logical index i is the slot (first_index + i) mod N,
\* and two logical indices are never the same slot
IndexMapping(c) ==
    /\ c.first_index \in 0 .. (Capacity - 1)
    /\ \A i \in 0 .. (CircularDeque_size(c) - 1) :
           CircularDeque_subscript(c, i) = (c.first_index + i) % Capacity
    /\ \A i, j \in 0 .. (CircularDeque_size(c) - 1) :
           i # j => CircularDeque_subscript(c, i) # CircularDeque_subscript(c, j)

\* C21: in every state of a CircularDeque reached by well-formed pushes, pops,
\* erases and clears, 0 <= first_index < N, logical index i is the physical
\* slot (first_index + i) mod N and distinct logical indices are distinct
\* slots; push_front moves first_index to (first_index + N - 1) mod N,
\* pop_front moves it to (first_index + 1) mod N, and push_back stores at the
\* slot (first_index + size()) mod N.
C21_IndexMapping ==
    [][/\ IndexMapping(circular)
       /\ IndexMapping(circular')
       /\ op' = "push_front" =>
              circular'.first_index = (circular.first_index + Capacity - 1) % Capacity
       /\ op' = "pop_front" =>
              circular'.first_index = (circular.first_index + 1) % Capacity
       /\ op' = "push_back" =>
              /\ circular'.first_index = circular.first_index
              /\ \E value \in Values :
                     circular'.elements =
                         [circular.elements EXCEPT
                              ![(circular.first_index + CircularDeque_size(circular))
                                    % Capacity] = value]
              /\ CircularDeque_subscript(circular', CircularDeque_size(circular') - 1)
                     = (circular.first_index + CircularDeque_size(circular)) % Capacity]_vars

\* a push_back has just stored into a slot before the first element's slot,
\* filling a deque whose first element had been moved by pops and pushes at the front
C21_Witness ==
    /\ op = "push_back"
    /\ ~only_pushed
    /\ CircularDeque_size(circular) = Capacity
    /\ Wrapped(circular)
    /\ circular.first_index = Capacity - 1

(***************************************************************************)
(* erase and the sequence of elements.                                     *)
(***************************************************************************)

\* the sequence without its element at the zero-based position `index`
RemoveAt(sequence, index) ==
    [k \in 1 .. (Len(sequence) - 1) |->
        IF k <= index THEN sequence[k] ELSE sequence[k + 1]]

\* C22: erase(it) on a Deque or CircularDeque, `it` at logical index
\* i < size(), leaves size() one less and the front-to-back sequence equal to
\* the sequence before with the element at index i deleted and the others in
\* their order, for every i and every head position.
C22_EraseRemovesOne ==
    [][(member' = "erase" /\ precondition') =>
           /\ Container_size(callee_type, callee')
                  = Container_size(callee_type, callee) - 1
           /\ Container_contents(callee_type, callee')
                  = RemoveAt(Container_contents(callee_type, callee), argument'[1])]_vars

\* erase has just removed the middle element of a full circular deque whose
\* elements wrapped past the last slot, and the two it kept differ
C22_Witness ==
    /\ member = "erase"
    /\ precondition
    /\ callee_type = "CircularDeque"
    /\ argument = <<1>>
    /\ CircularDeque_size(callee) = Capacity - 1
    /\ callee.first_index = Capacity - 1
    /\ CircularDeque_contents(callee)[1] # CircularDeque_contents(callee)[2]

(***************************************************************************)
(* The lifetime of the elements: the destructor calls of the member        *)
(* functions of Deque and CircularDeque, and the slots of `elements` they  *)
(* read and assign.  Each action is one call that meets its precondition.  *)
(***************************************************************************)

\* --this->element_count; this->elements[this->element_count].~value_type();
Deque_pop_back_destroys(d) == <<Wrap(d.element_count - 1)>>

\* the loop of pop_front reads elements[index + 1] and assigns elements[index]
\* for index = 0 .. element_count - 1; it calls no destructor
Deque_pop_front_reads(d) == {Wrap(index + 1) : index \in 0 .. (d.element_count - 1)}

Deque_pop_front_writes(d) == {index : index \in 0 .. (d.element_count - 1)}

Deque_pop_front_destroys(d) == <<>>

\* the loop of erase reads *next and assigns *current; it calls no destructor
Deque_erase_reads(d, element_iterator) == (element_iterator + 1) .. (Deque_end(d) - 1)

Deque_erase_writes(d, element_iterator) == element_iterator .. (Deque_end(d) - 2)

Deque_erase_destroys(d, element_iterator) == <<>>

\* for(index = get_begin_index(); index < get_end_index(); ++index) elements[index].~value_type();
RECURSIVE Deque_clear_loop(_, _)
Deque_clear_loop(index, end_index) ==
    IF index < end_index
    THEN <<index>> \o Deque_clear_loop(Wrap(index + 1), end_index)
    ELSE <<>>

Deque_clear_destroys(d) ==
    [destroyed |-> Deque_clear_loop(Deque_get_begin_index(d), Deque_get_end_index(d)),
     ended |-> TRUE]

Deque_push_back_writes(d) == {d.element_count}

\* elements[index] = move(elements[index - 1]) for index = element_count .. 1, then elements[0] = value
Deque_push_front_reads(d) == {index - 1 : index \in 1 .. d.element_count}

Deque_push_front_writes(d) == 0 .. d.element_count

\* this->elements[last_index].~value_type();
CircularDeque_pop_back_destroys(c) == <<get_last_index(c)>>

\* this->elements[this->first_index].~value_type();
CircularDeque_pop_front_destroys(c) == <<c.first_index>>

\* the iterators of erase reach the array through operator[]
CircularDeque_erase_reads(c, element_iterator) ==
    {IndexIterator_dereference(c, index) :
         index \in (element_iterator + 1) .. (CircularDeque_end(c) - 1)}

CircularDeque_erase_writes(c, element_iterator) ==
    {IndexIterator_dereference(c, index) :
         index \in element_iterator .. (CircularDeque_end(c) - 2)}

CircularDeque_erase_destroys(c, element_iterator) == <<>>

\* for(index = get_begin_index(); index != get_end_index(); ++index)
\*     elements[adjust_index(index)].~value_type();
\* `index` is a size_type that is only incremented: when it starts above the
\* end index it runs on until it wraps at 2^16.  The loop is followed for
\* `steps` iterations; `ended` tells whether it left within them.
RECURSIVE CircularDeque_clear_loop(_, _, _)
CircularDeque_clear_loop(c, index, steps) ==
    IF index = get_end_index(c) THEN [destroyed |-> <<>>, ended |-> TRUE]
    ELSE IF steps = 0 THEN [destroyed |-> <<>>, ended |-> FALSE]
    ELSE LET rest == CircularDeque_clear_loop(c, Wrap(index + 1), steps - 1)
         IN  [destroyed |-> <<adjust_index(c, index)>> \o rest.destroyed,
              ended |-> rest.ended]

CircularDeque_clear_destroys(c) == CircularDeque_clear_loop(c, get_begin_index(c), MaxSteps)

CircularDeque_push_back_writes(c) == {get_end_index(c)}

CircularDeque_push_front_writes(c) == {get_previous_index(c.first_index)}

\* the slots of `elements` that hold the elements of a deque
Container_live_slots(type, c) ==
    IF type = "Deque" THEN {Deque_subscript(c, index) : index \in 0 .. (Deque_size(c) - 1)}
    ELSE LiveSlots(c)

\* the deque is constructed empty
InitLifetime ==
    /\ owner_type \in {"Deque", "CircularDeque"}
    /\ owner \in [elements : [Slots -> Values], element_count : {0}, first_index : {0}]
    /\ trace = [op |-> "construct", destroyed |-> <<>>, ended |-> TRUE,
                read |-> {}, written |-> {}]
    /\ unreleased = {}
    /\ IdleDeque
    /\ IdleAdapter
    /\ IdleMemory
    /\ IdlePointer
    /\ IdleCall
    /\ IdlePair
    /\ IdleArray
    /\ IdleIterator

\* the record of a call, and the slots that wait for a destructor after it:
\* those the call took an element from, less those whose destructor it ran;
\* a slot that is assigned holds an element again
Traced(name, destroys, reads, writes) ==
    /\ trace' = [op |-> name, destroyed |-> destroys.destroyed, ended |-> destroys.ended,
                 read |-> reads, written |-> writes]
    /\ unreleased' =
           LET vacated == Container_live_slots(owner_type, owner)
                              \ Container_live_slots(owner_type, owner')
               stored == Container_live_slots(owner_type, owner')
                             \ Container_live_slots(owner_type, owner)
           IN  ((unreleased \cup vacated) \ stored)
                   \ {destroys.destroyed[k] : k \in 1 .. Len(destroys.destroyed)}
    /\ UNCHANGED <<owner_type, dequeVars, adapterVars, memoryVars, pointerVars, callVars,
                   pairVars, arrayVars, iteratorVars>>

Ran(destroyed) == [destroyed |-> destroyed, ended |-> TRUE]

StorePushBack(value) ==
    /\ Container_size(owner_type, owner) < Container_max_size(owner_type, owner)
    /\ owner' = Container_push_back(owner_type, owner, value)
    /\ Traced("push_back", Ran(<<>>), {},
              IF owner_type = "Deque" THEN Deque_push_back_writes(owner)
              ELSE CircularDeque_push_back_writes(owner))

StorePushFront(value) ==
    /\ Container_size(owner_type, owner) < Container_max_size(owner_type, owner)
    /\ owner' = Container_push_front(owner_type, owner, value)
    /\ Traced("push_front", Ran(<<>>),
              IF owner_type = "Deque" THEN Deque_push_front_reads(owner) ELSE {},
              IF owner_type = "Deque" THEN Deque_push_front_writes(owner)
              ELSE CircularDeque_push_front_writes(owner))

VacatePopBack ==
    /\ Container_size(owner_type, owner) > 0
    /\ owner' = Container_pop_back(owner_type, owner)
    /\ Traced("pop_back",
              Ran(IF owner_type = "Deque" THEN Deque_pop_back_destroys(owner)
                  ELSE CircularDeque_pop_back_destroys(owner)),
              {}, {})

\* on a full Deque the last read of pop_front is elements[capacity], beyond
\* the array: it yields any value
VacatePopFront ==
    /\ Container_size(owner_type, owner) > 0
    /\ \E beyond \in Values : owner' = Container_pop_front(owner_type, owner, beyond)
    /\ Traced("pop_front",
              Ran(IF owner_type = "Deque" THEN Deque_pop_front_destroys(owner)
                  ELSE CircularDeque_pop_front_destroys(owner)),
              IF owner_type = "Deque" THEN Deque_pop_front_reads(owner) ELSE {},
              IF owner_type = "Deque" THEN Deque_pop_front_writes(owner) ELSE {})

\* erase(begin() + position)
VacateErase(position) ==
    LET element_iterator == Container_iterator(owner_type, owner, position)
    IN  /\ position < Container_size(owner_type, owner)
        /\ owner' = Container_erase(owner_type, owner, element_iterator)
        /\ Traced("erase",
                  Ran(IF owner_type = "Deque" THEN Deque_erase_destroys(owner, element_iterator)
                      ELSE CircularDeque_erase_destroys(owner, element_iterator)),
                  IF owner_type = "Deque" THEN Deque_erase_reads(owner, element_iterator)
                  ELSE CircularDeque_erase_reads(owner, element_iterator),
                  IF owner_type = "Deque" THEN Deque_erase_writes(owner, element_iterator)
                  ELSE CircularDeque_erase_writes(owner, element_iterator))

VacateClear ==
    /\ owner' = IF owner_type = "Deque"
                THEN [Deque_clear(owner) EXCEPT !.first_index = 0]
                ELSE CircularDeque_clear(owner)
    /\ Traced("clear",
              IF owner_type = "Deque" THEN Deque_clear_destroys(owner)
              ELSE CircularDeque_clear_destroys(owner),
              {}, {})

NextLifetime ==
    \/ \E value \in Values : StorePushBack(value)
    \/ \E value \in Values : StorePushFront(value)
    \/ VacatePopBack
    \/ VacatePopFront
    \/ \E position \in Slots : VacateErase(position)
    \/ VacateClear

SpecLifetime == InitLifetime /\ [][NextLifetime]_vars

\* the slots of the elements of a circular deque, front to back
LogicalOrder(c) == [k \in 1 .. CircularDeque_size(c) |-> CircularDeque_subscript(c, k - 1)]

\* C23: CircularDeque::clear, in any reachable state, ends after it destroyed
\* each of the size() elements once, in logical order 0 .. size() - 1, and no
\* other slot, and leaves size() = 0 and first_index = 0.
C23_ClearDestroysLiveElements ==
    [][(owner_type = "CircularDeque" /\ trace'.op = "clear") =>
           /\ trace'.ended
           /\ trace'.destroyed = LogicalOrder(owner)
           /\ CircularDeque_size(owner') = 0
           /\ owner'.first_index = 0]_vars

\* C24: Deque::pop_front with 1 <= size() <= N removes the first element,
\* keeps the other size() - 1 in their order one slot forward, decrements
\* size(), and reads and assigns only slots of index < size().
C24_PopFrontStaysInside ==
    [][(owner_type = "Deque" /\ trace'.op = "pop_front") =>
           /\ Deque_size(owner') = Deque_size(owner) - 1
           /\ Deque_contents(owner') = Tail(Deque_contents(owner))
           /\ \A index \in trace'.read \cup trace'.written : index < Deque_size(owner)]_vars

\* C25: every element removed by pop_back, pop_front, erase or clear has its
\* destructor run once on the slot it leaves, and no push stores an element
\* into a slot that still waits for that destructor.
C25_DestructionPrecedesReuse ==
    [][/\ trace'.op \in {"pop_back", "pop_front", "erase", "clear"} =>
              /\ trace'.ended
              /\ Len(trace'.destroyed) = Cardinality(Container_live_slots(owner_type, owner)
                                             \ Container_live_slots(owner_type, owner'))
              /\ {trace'.destroyed[k] : k \in 1 .. Len(trace'.destroyed)}
                     = Container_live_slots(owner_type, owner)
                           \ Container_live_slots(owner_type, owner')
       /\ trace'.op \in {"push_back", "push_front"} =>
              trace'.written \cap unreleased = {}]_vars

(***************************************************************************)
(* Iterators of a CircularDeque across a call.  An iterator is the pair of *)
(* the deque and a logical index; it is dereferenced through operator[].   *)
(***************************************************************************)

\* the logical indices that are elements both before and after a call
KeptIndices(c, after) ==
    0 .. (IF CircularDeque_size(c) < CircularDeque_size(after)
          THEN CircularDeque_size(c) ELSE CircularDeque_size(after)) - 1

\* C26: push_back and pop_back on a CircularDeque leave first_index as it was,
\* and an iterator at logical index i < min(old size, new size) dereferences
\* to the same element with the same value after the call; after push_front
\* or pop_front an iterator at logical index i refers to another slot than
\* the one of the element it referred to before.
C26_BackMutationsKeepIterators ==
    [][/\ op' \in {"push_back", "pop_back"} =>
              /\ circular'.first_index = circular.first_index
              /\ \A i \in KeptIndices(circular, circular') :
                     /\ IndexIterator_dereference(circular', i)
                            = IndexIterator_dereference(circular, i)
                     /\ circular'.elements[IndexIterator_dereference(circular', i)]
                            = circular.elements[IndexIterator_dereference(circular, i)]
       /\ op' \in {"push_front", "pop_front"} =>
              \A i \in 0 .. (CircularDeque_size(circular) - 1) :
                  IndexIterator_dereference(circular', i)
                      # IndexIterator_dereference(circular, i)]_vars

\* pop_back has just taken the last element of a full deque whose elements
\* wrapped past the last slot of the array
C26_Witness ==
    /\ op = "pop_back"
    /\ circular.first_index = Capacity - 1
    /\ CircularDeque_size(circular) = Capacity - 1

(***************************************************************************)
(* ProgmemNullString::size and the bytes it reads.                         *)
(***************************************************************************)

\* the address of the first zero byte at or after `string`
FirstZero(memory, string) ==
    CHOOSE zero \in DOMAIN memory :
        /\ zero >= string
        /\ memory[zero] = 0
        /\ \A a \in string .. (zero - 1) : memory[a] # 0

\* C27: ProgmemNullString::size() on a handle whose run of program memory
\* holds a zero byte ends at the first zero byte and returns the number of
\* characters before it, the terminator not counted; it reads the bytes in
\* increasing address order and none past the first zero byte.
C27_SizeStopsAtTerminator ==
    call.op = "ProgmemNullString_size" =>
        LET string == call.value[1]
            zero == FirstZero(progmem, string)
        IN  /\ result[1].size = zero - string
            /\ result[1].reads = [i \in 1 .. (zero - string + 1) |-> string + (i - 1)]

\* size() was called on the first of two literals of the longest kind: it
\* counted characters, and characters follow its terminator
C27_Witness ==
    /\ call.op = "ProgmemNullString_size"
    /\ call.value = <<0>>
    /\ placed.value = MaxLiteral
    /\ result[1].size = MaxLiteral - 1
    /\ result[1].size > 0
    /\ progmem[MaxLiteral] # 0

(***************************************************************************)
(* utils/Iterator/ReverseIterator.h over the iterators of an array, and    *)
(* utils/Iterator/distance.h.  The array is a utils::Array of Capacity     *)
(* elements; an iterator into it is a position 0 .. Capacity, the last one *)
(* past the end.  distance.h includes "tags.h" and "traits.h", which the   *)
(* repository does not hold, for the tag types and the two aliases it      *)
(* names; its loops are modelled as they are written.                      *)
(***************************************************************************)

\* ++this->iterator;
ReverseIterator_decrement(reverse) == [reverse EXCEPT !.iterator = reverse.iterator + 1]

\* return *(this->iterator - (offset - 1));  the position referred to
ReverseIterator_subscript(reverse, offset) == reverse.iterator - (offset - 1)

\* return ReverseIterator(this->iterator - offset);
ReverseIterator_plus(reverse, offset) == makeReverseIterator(reverse.iterator - offset)

\* return ReverseIterator(this->iterator - offset);
ReverseIterator_minus(reverse, offset) == makeReverseIterator(reverse.iterator - offset)

\* this->iterator -= offset;
ReverseIterator_plus_assign(reverse, offset) ==
    [reverse EXCEPT !.iterator = reverse.iterator - offset]

\* this->iterator += offset;
ReverseIterator_minus_assign(reverse, offset) ==
    [reverse EXCEPT !.iterator = reverse.iterator + offset]

ReverseIterator_equal(left, right) == ReverseIterator_base(left) = ReverseIterator_base(right)

\* while(toIterator != fromIterator) { ++toIterator; ++difference; }
\* `last` is the past-the-end iterator of the range: incrementing it is
\* undefined
RECURSIVE details_distance_input(_, _, _, _)
details_distance_input(fromIterator, toIterator, difference, last) ==
    IF toIterator # fromIterator
    THEN IF toIterator = last THEN [difference |-> difference, defined |-> FALSE]
         ELSE details_distance_input(fromIterator, toIterator + 1, difference + 1, last)
    ELSE [difference |-> difference, defined |-> TRUE]

\* return (toIterator - fromIterator);
details_distance_random_access(fromIterator, toIterator) ==
    [difference |-> toIterator - fromIterator, defined |-> TRUE]

\* the overload is chosen by the iterator's category
utils_distance(category, fromIterator, toIterator, last) ==
    IF category = "random_access"
    THEN details_distance_random_access(fromIterator, toIterator)
    ELSE details_distance_input(fromIterator, toIterator, 0, last)

\* the iterators of the array, the past-the-end iterator included
Positions == 0 .. Capacity

\* the categories of the iterators given to distance
Categories == {"input", "forward", "bidirectional", "random_access"}

\* a reverse iterator made of any iterator of the array
InitIterator ==
    /\ reverse_iterator \in {makeReverseIterator(iterator) : iterator \in Positions}
    /\ iterator_call = [op |-> "construct", arguments |-> <<>>, returned |-> <<>>]
    /\ IdleDeque
    /\ IdleAdapter
    /\ IdleMemory
    /\ IdlePointer
    /\ IdleCall
    /\ IdlePair
    /\ IdleArray
    /\ IdleLifetime

IteratorCalls(name, given, value) ==
    /\ iterator_call' = [op |-> name, arguments |-> given, returned |-> value]
    /\ UNCHANGED <<dequeVars, adapterVars, memoryVars, pointerVars, callVars, pairVars,
                   arrayVars, lifetimeVars>>

\* ++r, while r refers to an element
ReverseIncrement ==
    /\ ReverseIterator_base(reverse_iterator) > 0
    /\ reverse_iterator' = ReverseIterator_increment(reverse_iterator)
    /\ IteratorCalls("increment", <<>>, <<>>)

\* --r, while an element lies before the one r refers to
ReverseDecrement ==
    /\ ReverseIterator_base(reverse_iterator) < Capacity
    /\ reverse_iterator' = ReverseIterator_decrement(reverse_iterator)
    /\ IteratorCalls("decrement", <<>>, <<>>)

\* r + offset, while r incremented `offset` times stays in the range
ReversePlus(offset) ==
    /\ ReverseIterator_base(reverse_iterator) - offset >= 0
    /\ IteratorCalls("plus", <<offset>>, <<ReverseIterator_plus(reverse_iterator, offset)>>)
    /\ UNCHANGED reverse_iterator

\* r - offset, while r decremented `offset` times stays in the range and the
\* iterator the operator computes is one of the array
ReverseMinus(offset) ==
    /\ ReverseIterator_base(reverse_iterator) + offset <= Capacity
    /\ ReverseIterator_base(reverse_iterator) - offset >= 0
    /\ IteratorCalls("minus", <<offset>>, <<ReverseIterator_minus(reverse_iterator, offset)>>)
    /\ UNCHANGED reverse_iterator

\* r += offset
ReversePlusAssign(offset) ==
    /\ ReverseIterator_base(reverse_iterator) - offset >= 0
    /\ reverse_iterator' = ReverseIterator_plus_assign(reverse_iterator, offset)
    /\ IteratorCalls("plus_assign", <<offset>>, <<>>)

\* r -= offset
ReverseMinusAssign(offset) ==
    /\ ReverseIterator_base(reverse_iterator) + offset <= Capacity
    /\ reverse_iterator' = ReverseIterator_minus_assign(reverse_iterator, offset)
    /\ IteratorCalls("minus_assign", <<offset>>, <<>>)

\* r[offset], while *(r + offset) is an element and the position the
\* operator computes is one too
ReverseSubscript(offset) ==
    /\ ReverseIterator_dereference(ReverseIterator_plus(reverse_iterator, offset)) \in Slots
    /\ ReverseIterator_subscript(reverse_iterator, offset) \in Slots
    /\ IteratorCalls("subscript", <<offset>>,
                     <<ReverseIterator_subscript(reverse_iterator, offset)>>)
    /\ UNCHANGED reverse_iterator

\* distance(from, to) with `to` reachable from `from`; a call that increments
\* the past-the-end iterator returns anything, or does not return
CallDistance(category, fromIterator, toIterator) ==
    LET measured == utils_distance(category, fromIterator, toIterator, Capacity)
    IN  /\ fromIterator <= toIterator
        /\ \E outcome \in {<<>>} \cup {<<difference>> : difference \in Positions} :
               /\ measured.defined => outcome = <<measured.difference>>
               /\ IteratorCalls("distance", <<category, fromIterator, toIterator>>, outcome)
        /\ UNCHANGED reverse_iterator

NextIterator ==
    \/ ReverseIncrement
    \/ ReverseDecrement
    \/ \E offset \in Positions : ReversePlus(offset)
    \/ \E offset \in Positions : ReverseMinus(offset)
    \/ \E offset \in Positions : ReversePlusAssign(offset)
    \/ \E offset \in Positions : ReverseMinusAssign(offset)
    \/ \E offset \in Positions : ReverseSubscript(offset)
    \/ \E category \in Categories : \E fromIterator \in Positions, toIterator \in Positions :
         CallDistance(category, fromIterator, toIterator)

SpecIterator == InitIterator /\ [][NextIterator]_vars

\* the reverse iterator after `times` calls of ++
RECURSIVE Incremented(_, _)
Incremented(reverse, times) ==
    IF times = 0 THEN reverse ELSE Incremented(ReverseIterator_increment(reverse), times - 1)

\* the reverse iterator after `times` calls of --
RECURSIVE Decremented(_, _)
Decremented(reverse, times) ==
    IF times = 0 THEN reverse ELSE Decremented(ReverseIterator_decrement(reverse), times - 1)

\* C28: for a reverse iterator r over a random-access range and k >= 0 within
\* the range, r + k is r incremented k times, r - k is r decremented k times,
\* (r + k) - k == r, and r[k] refers to the element *(r + k) refers to.
C28_OffsetsAgreeWithSteps ==
    /\ iterator_call.op = "plus" =>
           /\ iterator_call.returned[1]
                  = Incremented(reverse_iterator, iterator_call.arguments[1])
           /\ ReverseIterator_equal(
                  ReverseIterator_minus(iterator_call.returned[1], iterator_call.arguments[1]),
                  reverse_iterator)
    /\ iterator_call.op = "minus" =>
           iterator_call.returned[1]
               = Decremented(reverse_iterator, iterator_call.arguments[1])
    /\ iterator_call.op = "subscript" =>
           iterator_call.returned[1]
               = ReverseIterator_dereference(
                     ReverseIterator_plus(reverse_iterator, iterator_call.arguments[1]))

\* C29: distance(from, to) on iterators that are not random-access, `to`
\* reachable from `from` by n >= 0 increments, returns, and returns n.
C29_DistanceCountsIncrements ==
    (iterator_call.op = "distance" /\ iterator_call.arguments[1] # "random_access") =>
        iterator_call.returned = <<iterator_call.arguments[3] - iterator_call.arguments[2]>>

(***************************************************************************)
(* Forward iteration over a CircularDeque with its IndexIterators.  Both   *)
(* iterators of a loop hold the same deque; an iterator is its `index`.    *)
(***************************************************************************)

\* (left.container == right.container) && (left.index == right.index)
IndexIterator_equal(left, right) == left = right

\* (left.container != right.container) || (left.index != right.index)
IndexIterator_not_equal(left, right) == left # right

\* return (left.index - right.index);  size_type converted to difference_type
IndexIterator_minus(left, right) == ToPtrdiff(Wrap(left - right))

\* for(iterator = begin(); iterator != end(); ++iterator) *iterator;  the
\* slots read, and whether the loop ended within MaxSteps iterations
RECURSIVE IndexIterator_iterate(_, _, _, _)
IndexIterator_iterate(c, iterator, end_iterator, steps) ==
    IF ~IndexIterator_not_equal(iterator, end_iterator)
    THEN [slots |-> <<>>, ended |-> TRUE]
    ELSE IF steps = MaxSteps
    THEN [slots |-> <<>>, ended |-> FALSE]
    ELSE LET rest == IndexIterator_iterate(c, IndexIterator_increment(iterator),
                                           end_iterator, steps + 1)
         IN  [slots |-> <<IndexIterator_dereference(c, iterator)>> \o rest.slots,
              ended |-> rest.ended]

\* the iterator after `times` calls of ++
RECURSIVE Advanced(_, _)
Advanced(iterator, times) ==
    IF times = 0 THEN iterator ELSE Advanced(IndexIterator_increment(iterator), times - 1)

\* C30: in every reachable state of a CircularDeque, ++ applied size() times
\* to begin() gives an iterator equal to end() and no earlier step does,
\* end() - begin() = size(), and the k-th dereference reads logical element
\* k, which lies in the slot (first_index + k) mod N.
C30_ForwardIterationEnds ==
    LET pass == IndexIterator_iterate(circular, CircularDeque_begin(circular),
                                      CircularDeque_end(circular), 0)
    IN  /\ pass.ended
        /\ Len(pass.slots) = CircularDeque_size(circular)
        /\ IndexIterator_equal(Advanced(CircularDeque_begin(circular),
                                        CircularDeque_size(circular)),
                               CircularDeque_end(circular))
        /\ \A k \in 0 .. (CircularDeque_size(circular) - 1) :
               /\ IndexIterator_not_equal(Advanced(CircularDeque_begin(circular), k),
                                          CircularDeque_end(circular))
               /\ pass.slots[k + 1] = (circular.first_index + k) % Capacity
        /\ IndexIterator_minus(CircularDeque_end(circular), CircularDeque_begin(circular))
               = CircularDeque_size(circular)

\* a full deque whose first element is in the last slot of the array, after
\* a removal, iterated over all its elements
C30_Witness ==
    /\ ~only_pushed
    /\ CircularDeque_size(circular) = Capacity
    /\ circular.first_index = Capacity - 1
    /\ Len(IndexIterator_iterate(circular, CircularDeque_begin(circular),
                                 CircularDeque_end(circular), 0).slots) = Capacity

Init == InitDeque

Next == NextDeque

Spec == Init /\ [][Next]_vars

====
